---- MODULE Spec2Model ----
(***************************************************************************)
(* A model of the beckhoff-js ADS client.                                  *)
(*                                                                         *)
(*  - ADSConnection (connection.ts, kept as src/unnamed/part_003): the     *)
(*    socket, the invoke-ID counter, the `requests` emitter that holds the *)
(*    waiters, the per-request timers and the reconnect timer.             *)
(*  - Client (src/src/main.ts): the facade with its own socket, its        *)
(*    `_requests` table and the notification registry.                     *)
(*                                                                         *)
(* One action is one turn of the Node event loop: a call made by the user, *)
(* a socket event or a timer, together with the promise reactions          *)
(* (microtasks) that run before the next event is taken.                   *)
(***************************************************************************)
EXTENDS Integers, Sequences, FiniteSets, TLC

(***************************************************************************)
(* Bounds of the model.                                                    *)
(***************************************************************************)
\* Calls of ADSConnection.request that the callers make.
MaxReq == 3
\* Width of the invoke ID in bits. The source uses 32; TLC's integers do
\* not hold 2^32 - 1, and a narrow counter lets the wrap-around happen.
IdBits == 2

\* export const MAX_SAFE_INVOKEID = 2 ** 32 - 1
MAX_SAFE_INVOKEID == 2^IdBits - 1

Slots == 1..MaxReq
InvokeIds == 1..MAX_SAFE_INVOKEID

(***************************************************************************)
(* ADS error codes (ads.ts, Errors).  Error code 0 is success.  1808 and 1 *)
(* stand for the codes of the table, 9999 for a code the table lacks.      *)
(***************************************************************************)
RespCodes == {0, 1808, 9999}
ClientRespCodes == {0, 1808}

Errors(code) ==
  CASE code = 0    -> "OK"
    [] code = 1    -> "Internal error"
    [] code = 1808 -> "symbol not found"
    [] OTHER       -> ""

\* A promise is pending, resolved or rejected; a rejection carries the
\* message of the Error and, for `Ads error code ${n}`, the code n.
Idle         == [st |-> "idle",     msg |-> "", code |-> 0]
Pending      == [st |-> "pending",  msg |-> "", code |-> 0]
Resolved     == [st |-> "resolved", msg |-> "", code |-> 0]
Rejected(m)  == [st |-> "rejected", msg |-> m,  code |-> 0]

\* new Error(Errors[resp.header.errorCode] || `Ads error code ${...}`)
AdsError(code) ==
  IF Errors(code) # "" THEN Rejected(Errors(code))
  ELSE [st |-> "rejected", msg |-> "Ads error code", code |-> code]

\* resolve()/reject() of a JavaScript promise act on a pending promise only.
Settle(p, outcome) == IF p.st = "pending" THEN outcome ELSE p

NoFrame == [invokeId |-> 0, errorCode |-> 0, type |-> "none"]

VARIABLES
  \* ---- ADSConnection ----
  connected,         \* this.connected
  socket,            \* this.socket: "none", "connecting", "open", "ended", "closed"
  listening,         \* the handlers of connect() are attached to this.socket
  invokeID,          \* this.invokeID
  requests,          \* this.requests: invoke ID -> the waiters listening on `req:ID`
  closeL,            \* the `disconnected` listeners on this 'close'
  timeouts,          \* the request timers that are running
  reconnectTimeout,  \* the reconnect timer is running
  reconnect,         \* options.reconnect
  promise,           \* slot -> the promise request() returned
  idOf,              \* slot -> the invokeID the call took (0: none)
  sent,              \* slots whose packet the server holds, not yet answered
  userClosed,        \* the user called close() and has not called connect() since
  last,              \* the last turn: its handler, what it emitted, the frame it read
  \* ---- Client (main.ts) ----
  client,            \* the fields of the Client, see InitClient
  options,           \* this.options of the Client
  \* ---- the bytes of the socket ----
  codec,             \* the bytes on their way and the handler's buffer, see CodecStart
  \* ---- the tags of the PLC ----
  tags,              \* the PLC's memory and the Client's view of its tags, see ReadyTags
  \* ---- the upload of the tables ----
  tables             \* the payload getSymbols or getDataTypes decodes, see TableInit

connVars == <<connected, socket, listening, invokeID, requests, closeL, timeouts,
              reconnectTimeout, reconnect, promise, idOf, sent, userClosed, last>>

clientVars == <<client, options>>

vars == <<connVars, clientVars, codec, tags, tables>>

(***************************************************************************)
(* The frame codec of ams.ts over bytes.  A Buffer is a sequence of bytes; *)
(* offsets count from 0 as in the code.                                    *)
(***************************************************************************)
\* The packets of one buffer.
MaxPackets == 2

tcpHeaderSize == 6
amsHeaderSize == 32
headerSize == tcpHeaderSize + amsHeaderSize

\* buf.readUInt16LE(off), buf.readUInt32LE(off), inside the buffer.
readUInt16LE(buf, off) == buf[off + 1] + 256 * buf[off + 2]
readUInt32LE(buf, off) ==
  buf[off + 1] + 256 * buf[off + 2] + 65536 * buf[off + 3] + 16777216 * buf[off + 4]

\* The read is inside the buffer; outside it the read throws a RangeError.
InRange(buf, off, size) == off + size <= Len(buf)

\* buf.slice(from, to), buf.slice(from)
slice(buf, from, to) ==
  SubSeq(buf, (IF from < Len(buf) THEN from ELSE Len(buf)) + 1,
              IF to < Len(buf) THEN to ELSE Len(buf))
sliceFrom(buf, from) == slice(buf, from, Len(buf))

\* header.writeUInt16LE(v, ..), header.writeUInt32LE(v, ..)
UInt16LE(v) == <<v % 256, (v \div 256) % 256>>
UInt32LE(v) ==
  <<v % 256, (v \div 256) % 256, (v \div 65536) % 256, (v \div 16777216) % 256>>

Zeros(k) == [i \in 1..k |-> 0]

\* The nine response types of ads.ts.
ResponseTypes == 1..9
\* The types whose packet has a result, a length field, a payload.
WithResult == ResponseTypes \ {8}
WithLength == {2, 8, 9}
WithData   == {1, 2, 4, 6, 8, 9}

\* A packet as the peer builds it, with the layout request() gives its own:
\* two bytes of padding, the length of the rest, the AMS header of 32 bytes
\* with the command at 16, the data length at 20, the error code at 24 and
\* the invoke ID at 28, then the data.
Packet(commandId, invokeId, data) ==
  Zeros(2) \o UInt32LE(amsHeaderSize + Len(data))
    \o Zeros(16) \o UInt16LE(commandId) \o UInt16LE(5)
    \o UInt32LE(Len(data)) \o UInt32LE(0) \o UInt32LE(invokeId)
    \o data

\* The data of a response of each type: the result and the length, where the
\* type has them, before the payload.
ResponseData(type, payload) ==
  (IF type \in WithResult THEN UInt32LE(0) ELSE <<>>)
    \o (IF type \in WithLength THEN UInt32LE(Len(payload)) ELSE <<>>)
    \o payload

\* The payload of the responses: the least one of the type.
Payload(type) ==
  CASE type = 1 -> Zeros(20)            \* version, build and device name
    [] type = 2 -> <<7>>
    [] type = 4 -> UInt16LE(5) \o UInt16LE(0)
    [] type = 6 -> UInt32LE(1)          \* the handle
    [] type = 8 -> UInt32LE(0)          \* the number of stamps
    [] type = 9 -> <<7, 7>>
    [] OTHER -> <<>>

NoPacket == [type |-> 0, invokeId |-> 0, result |-> 0, length |-> 0, data |-> <<>>]

Threw == [threw |-> TRUE, packet |-> NoPacket, buffer |-> <<>>, packets |-> <<>>]

\* decode(_buffer): the packet, NoPacket for undefined, or a throw.
decode(tcpPacket) ==
  LET commandId == readUInt16LE(tcpPacket, 16)
      length    == readUInt32LE(tcpPacket, 20)
      invokeId  == readUInt32LE(tcpPacket, 28)
      fields    == IF commandId \in {2, 9} THEN 8 ELSE 4
      made      == [type |-> commandId, invokeId |-> invokeId,
                    result |-> IF commandId \in WithResult
                               THEN readUInt32LE(tcpPacket, 32) ELSE 0,
                    length |-> IF commandId = 8 THEN readUInt32LE(tcpPacket, 32)
                               ELSE IF commandId \in {2, 9}
                               THEN readUInt32LE(tcpPacket, 36) ELSE 0,
                    data |-> IF commandId \in WithData
                             THEN sliceFrom(tcpPacket, amsHeaderSize + fields) ELSE <<>>]
  IN  IF Len(tcpPacket) < length THEN Threw
      ELSE IF commandId \notin ResponseTypes
      THEN [threw |-> FALSE, packet |-> NoPacket]
      ELSE IF ~InRange(tcpPacket, amsHeaderSize, fields) THEN Threw
      ELSE [threw |-> FALSE, packet |-> made]

\* _buffer.slice(tcpLength + tcpHeaderSize)
SkipAms(buf, tcpLength) == sliceFrom(buf, tcpLength)
Rest(buf, tcpLength) == sliceFrom(buf, tcpLength + tcpHeaderSize)

\* parse(_buffer): the do-while loop, one packet each time round.
RECURSIVE parseLoop(_, _)
parseLoop(buf, packets) ==
  IF ~InRange(buf, 2, 4) THEN Threw
  ELSE LET tcpLength == readUInt32LE(buf, 2) IN
       IF Len(buf) >= tcpHeaderSize + tcpLength /\ tcpLength >= 32
       THEN LET d    == decode(slice(buf, tcpHeaderSize, tcpHeaderSize + tcpLength))
                rest == Rest(buf, tcpLength)
            IN  IF d.threw THEN Threw
                ELSE IF d.packet = NoPacket
                THEN [threw |-> FALSE, buffer |-> rest, packets |-> packets]
                ELSE IF Len(rest) >= headerSize
                THEN parseLoop(rest, Append(packets, d.packet))
                ELSE [threw |-> FALSE, buffer |-> rest,
                      packets |-> Append(packets, d.packet)]
       ELSE [threw |-> FALSE, buffer |-> buf, packets |-> packets]

parse(buf) == parseLoop(buf, <<>>)

\* _buffer.length >= tcpHeaderSize + tcpLength && tcpLength >= 32: the buffer
\* starts with a whole packet.
HasFrame(buf) ==
  /\ InRange(buf, 2, 4)
  /\ readUInt32LE(buf, 2) >= 32
  /\ Len(buf) >= tcpHeaderSize + readUInt32LE(buf, 2)

\* No bytes on their way.
NoCodec == [handler |-> "none", sent |-> <<>>, wire |-> <<>>, bytewise |-> FALSE,
            buffer |-> <<>>, events |-> 0, out |-> <<>>, errors |-> 0, session |-> 1,
            caught |-> <<>>]

\* The bytes of the packets of the given types, the i-th with invoke ID i.
RECURSIVE Stream(_, _)
Stream(types, i) ==
  IF i > Len(types) THEN <<>>
  ELSE Packet(types[i], i, ResponseData(types[i], Payload(types[i])))
         \o Stream(types, i + 1)

\* The peer sends the packets; the socket hands the bytes over in two 'data'
\* events at most, or one byte at a time.
CodecStart(handler, types, bytewise) ==
  codec = [NoCodec EXCEPT !.handler = handler, !.sent = types,
                          !.wire = Stream(types, 1), !.bytewise = bytewise]

\* Buffer.concat([this._buffer, data]), or data when the buffer is null
DropBuffer(buffer, data) == data
Concat(buffer, data) == buffer \o data

\* dataHandler(data) of the Client and of the ADSConnection, up to the
\* dispatch of the packets: both store the bytes before they parse.  A throw
\* of parse rejects the promise of the Client's async handler, which nothing
\* handles; the ADSConnection catches it and emits 'err': `caught` holds the
\* events its catch has emitted.
Receive(c, data) ==
  LET buf == Concat(c.buffer, data)
      r   == parse(buf)
  IN  IF r.threw
      THEN [c EXCEPT !.buffer = buf, !.events = @ + 1, !.errors = @ + 1,
                     !.caught = IF c.handler = "ADSConnection"
                                THEN Append(@, "err") ELSE @]
      ELSE [c EXCEPT !.buffer = r.buffer, !.events = @ + 1, !.out = @ \o r.packets]

(***************************************************************************)
(* The tags: findTag, parse, parseArray and encode of main.ts.  A string   *)
(* of the program (a tag name, a STRING value) is a sequence of            *)
(* characters; a Buffer is a sequence of bytes.                            *)
(***************************************************************************)
\* String.prototype.toUpperCase, on the letters of the names below.
toUpperCase(str) ==
  [i \in 1..Len(str) |->
     CASE str[i] = "a" -> "A" [] str[i] = "b" -> "B" [] str[i] = "c" -> "C"
       [] str[i] = "g" -> "G" [] str[i] = "h" -> "H" [] str[i] = "i" -> "I"
       [] str[i] = "l" -> "L" [] str[i] = "m" -> "M" [] str[i] = "n" -> "N"
       [] str[i] = "o" -> "O" [] str[i] = "r" -> "R" [] str[i] = "s" -> "S"
       [] str[i] = "t" -> "T" [] str[i] = "u" -> "U" [] str[i] = "x" -> "X"
       [] str[i] = "y" -> "Y" [] OTHER -> str[i]]

\* str.substring(from, to), str.substring(from)
substring(str, from, to) ==
  LET a == IF from < 0 THEN 0 ELSE IF from > Len(str) THEN Len(str) ELSE from
      b == IF to < 0 THEN 0 ELSE IF to > Len(str) THEN Len(str) ELSE to
  IN  IF a <= b THEN SubSeq(str, a + 1, b) ELSE SubSeq(str, b + 1, a)
substringFrom(str, from) == substring(str, from, Len(str))

\* str.indexOf(ch)
indexOf(str, ch) ==
  IF \E i \in 1..Len(str) : str[i] = ch
  THEN (CHOOSE i \in 1..Len(str) : str[i] = ch /\ \A j \in 1..(i - 1) : str[j] # ch) - 1
  ELSE -1

\* str.split('.').filter(Boolean): the parts between the dots that are not empty
RECURSIVE splitDots(_, _)
splitDots(str, part) ==
  IF str = <<>> THEN (IF part = <<>> THEN <<>> ELSE <<part>>)
  ELSE IF Head(str) = "."
  THEN (IF part = <<>> THEN <<>> ELSE <<part>>) \o splitDots(Tail(str), <<>>)
  ELSE splitDots(Tail(str), Append(part, Head(str)))

\* The PLC program of the model: its symbols as SYM_UPLOAD lists them ...
SymbolNames ==
  [arrAlarm |-> <<".", "a", "r", "r", "A", "l", "a", "r", "m">>,
   Sym      |-> <<".", "S", "y", "m">>,
   txt      |-> <<".", "t", "x", "t">>,
   mat      |-> <<".", "m", "a", "t">>,
   n        |-> <<".", "n">>]

Symbols ==
  << [name |-> SymbolNames.arrAlarm, group |-> 16448, offset |-> 32, size |-> 2,
      type |-> "ARRAY [1..2] OF BOOL"],
     [name |-> SymbolNames.Sym, group |-> 16448, offset |-> 40, size |-> 3,
      type |-> "ST_Sym"],
     [name |-> SymbolNames.txt, group |-> 16448, offset |-> 48, size |-> 4,
      type |-> "STRING(3)"],
     [name |-> SymbolNames.mat, group |-> 16448, offset |-> 56, size |-> 4,
      type |-> "ARRAY [0..1,1..2] OF BYTE"],
     [name |-> SymbolNames.n, group |-> 16448, offset |-> 64, size |-> 2,
      type |-> "UINT"] >>

\* ... and its data types as SYM_DT_UPLOAD lists them.  The names of the
\* sub-items are in the letter case of their declaration.
Item(name, type, offset, size) ==
  [name |-> name, type |-> type, offset |-> offset, size |-> size]

NoDataType == [name |-> "", type |-> "", offset |-> 0, size |-> 0,
               arrayDimentions |-> <<>>, subItems |-> <<>>]

DataTypes(type) ==
  CASE type = "ARRAY [1..2] OF BOOL" ->
         [NoDataType EXCEPT !.name = type, !.type = "BOOL", !.size = 2,
            !.arrayDimentions = <<[start |-> 1, length |-> 2]>>]
    [] type = "ARRAY [0..1,1..2] OF BYTE" ->
         [NoDataType EXCEPT !.name = type, !.type = "BYTE", !.size = 4,
            !.arrayDimentions = <<[start |-> 0, length |-> 2],
                                  [start |-> 1, length |-> 2]>>]
    [] type = "ST_Sym" ->
         [NoDataType EXCEPT !.name = type, !.size = 3,
            !.subItems = <<Item(<<"C", "o", "u", "n", "t">>, "BYTE", 0, 1),
                           Item(<<"S", "U", "B">>, "ST_Sub", 1, 2)>>]
    [] type = "ST_Sub" ->
         [NoDataType EXCEPT !.name = type, !.size = 2,
            !.subItems = <<Item(<<"L", "O">>, "BYTE", 0, 1),
                           Item(<<"H", "i">>, "BYTE", 1, 1)>>]
    [] OTHER -> NoDataType

\* The addresses of the symbols in the PLC.
Addresses == UNION {(Symbols[i].offset)..(Symbols[i].offset + Symbols[i].size - 1) :
                      i \in 1..Len(Symbols)}

\* The values of JavaScript that parse returns and encode takes.
Bool(b)  == [t |-> "boolean", b |-> b]
Num(n)   == [t |-> "number", n |-> n]
Str(str) == [t |-> "string", s |-> str]
Obj(m)   == [t |-> "object", m |-> m]      \* sub-item name -> value
Arr(m)   == [t |-> "array", a |-> m]       \* index -> value
Null     == [t |-> "null"]
Thrown(msg) == [t |-> "throw", msg |-> msg]

\* Buffer.toString('latin1') and Buffer.from(str, 'latin1') on the letters of
\* the STRING values of the model; "NUL" is the character \x00.
Letters == <<"a", "b", "c", "d">>
fromCharCode(b) ==
  IF b = 0 THEN "NUL" ELSE IF b - 96 \in 1..Len(Letters) THEN Letters[b - 96] ELSE "?"
charCode(ch) ==
  IF \E i \in 1..Len(Letters) : Letters[i] = ch
  THEN 96 + CHOOSE i \in 1..Len(Letters) : Letters[i] = ch
  ELSE 0
toLatin1(data) == [i \in 1..Len(data) |-> fromCharCode(data[i])]
fromLatin1(str) == [i \in 1..Len(str) |-> charCode(str[i])]

\* dt.subItems.find(item => item.name === name): its place, 0 when absent
findItem(subItems, name) ==
  IF \E i \in 1..Len(subItems) : subItems[i].name = name
  THEN CHOOSE i \in 1..Len(subItems) :
         subItems[i].name = name /\ \A j \in 1..(i - 1) : subItems[j].name # name
  ELSE 0

\* targetTag.substring(tag.name.length).split('.').filter(Boolean)
targetParts(tag) == splitDots(substringFrom(tag.targetTag, Len(tag.name)), <<>>)

\* Client.parse(tag, data, targetTag) and parseArray(tag, data, dimentions).
\* parseArray pops its dimension from the array it is given, which the whole
\* recursion shares: it returns the value and the dimensions that are left.
RECURSIVE ClientParse(_, _, _)
RECURSIVE parseArray(_, _, _)
RECURSIVE parseElements(_, _, _, _, _, _)
RECURSIVE parseItems(_, _, _, _)

ClientParse(tag, data, targetTag) ==
  LET type == tag.type
      dt   == DataTypes(type)
  IN  IF type = "BOOL"
      THEN IF InRange(data, 0, 1) THEN Bool(data[1] > 0) ELSE Thrown("RangeError")
      ELSE IF type = "BYTE"
      THEN IF InRange(data, 0, 1) THEN Num(data[1]) ELSE Thrown("RangeError")
      ELSE IF type = "UINT"
      THEN IF InRange(data, 0, 2) THEN Num(readUInt16LE(data, 0)) ELSE Thrown("RangeError")
      ELSE IF type = "PVOID"
      THEN IF InRange(data, 0, 4) THEN Num(readUInt32LE(data, 0)) ELSE Thrown("RangeError")
      ELSE IF type = "STRING(3)"
      THEN LET str == toLatin1(slice(data, 0, tag.size))
           IN  Str(substring(str, 0, indexOf(str, "NUL")))
      ELSE IF dt = NoDataType THEN Null
      ELSE IF Len(dt.arrayDimentions) > 0
      THEN parseArray(dt, slice(data, dt.offset, dt.offset + dt.size),
                      dt.arrayDimentions).value
      ELSE IF Len(dt.subItems) > 0
      THEN IF Len(targetTag) > 0
           THEN LET i == findItem(dt.subItems, Head(targetTag)) IN
                IF i = 0 THEN Thrown("parse: could not find subItem")
                ELSE ClientParse(dt.subItems[i],
                           slice(data, dt.subItems[i].offset,
                                 dt.subItems[i].offset + dt.subItems[i].size),
                           Tail(targetTag))
           ELSE parseItems(dt.subItems, data, 1, <<>>)
      ELSE Null

\* dt.subItems.reduce(...): the object of the decoded sub-items
parseItems(subItems, data, i, acc) ==
  IF i > Len(subItems) THEN Obj(acc)
  ELSE LET item == subItems[i]
           v    == ClientParse(item, slice(data, item.offset, item.offset + item.size), <<>>)
       IN  IF v.t = "throw" THEN v
           ELSE parseItems(subItems, data, i + 1, (item.name :> v) @@ acc)

parseArray(tag, data, dimentions) ==
  IF dimentions = <<>> \/ dimentions[Len(dimentions)].length = 0
  THEN [value |-> Thrown("parse: invalid array dimention"), dimentions |-> <<>>]
  ELSE parseElements(tag, data, dimentions[Len(dimentions)], 0,
                     SubSeq(dimentions, 1, Len(dimentions) - 1), <<>>)

\* for (let i = 0; i < length; i++) ret[`${i+start}`] = ...
parseElements(tag, data, dim, i, dimentions, ret) ==
  IF i >= dim.length THEN [value |-> Arr(ret), dimentions |-> dimentions]
  ELSE LET size == Len(data) \div dim.length
           part == slice(data, i * size, (i + 1) * size)
           r    == IF Len(dimentions) > 0 THEN parseArray(tag, part, dimentions)
                   ELSE [value |-> ClientParse(tag, part, <<>>), dimentions |-> dimentions]
       IN  IF r.value.t = "throw" THEN r
           ELSE parseElements(tag, data, dim, i + 1, r.dimentions,
                              ((i + dim.start) :> r.value) @@ ret)

\* Buffer.alloc(size) with data copied to it at `at`: data.copy(buffer, at)
copyInto(buffer, data, at) ==
  [k \in 1..Len(buffer) |->
     IF k - at \in 1..Len(data) THEN data[k - at] ELSE buffer[k]]

\* value ? 1 : 0
truthy(value) ==
  CASE value.t = "boolean" -> value.b
    [] value.t = "number" -> value.n # 0
    [] value.t = "string" -> value.s # <<>>
    [] value.t = "null" -> FALSE
    [] OTHER -> TRUE

\* typeof value[name] !== 'undefined'
hasKey(value, name) == value.t = "object" /\ name \in DOMAIN value.m

\* Client.encode(tag, value, targetTag): the offset, the size and the bytes to write
Encoded(offset, size, data) == [t |-> "encoded", offset |-> offset, size |-> size, data |-> data]

RECURSIVE ClientEncode(_, _, _)
RECURSIVE encodeItems(_, _, _, _, _)

ClientEncode(tag, value, targetTag) ==
  LET type == tag.type
      dt   == DataTypes(type)
  IN  IF type = "BOOL"
      THEN Encoded(tag.offset, tag.size, <<IF truthy(value) THEN 1 ELSE 0>>)
      ELSE IF type = "BYTE"
      THEN IF value.t = "number" /\ value.n \in 0..255
           THEN Encoded(tag.offset, tag.size, <<value.n>>)
           ELSE Thrown("RangeError")
      ELSE IF type = "UINT"
      THEN IF value.t = "number" /\ value.n \in 0..65535
           THEN Encoded(tag.offset, tag.size, UInt16LE(value.n))
           ELSE Thrown("RangeError")
      ELSE IF type = "PVOID"
      THEN Thrown("encode: writing datatypes PVOID and OTCID is not supported")
      ELSE IF type = "STRING(3)"
      THEN IF value.t = "string"
           THEN Encoded(tag.offset, tag.size, fromLatin1(value.s))
           ELSE Thrown("TypeError")
      ELSE IF dt = NoDataType THEN Thrown("encode: datatype was not found or recogniced")
      ELSE IF Len(dt.arrayDimentions) > 0
      THEN Thrown("encode: writing arrays are not supported yet")
      ELSE IF Len(dt.subItems) > 0
      THEN IF Len(targetTag) > 0
           THEN LET i == findItem(dt.subItems, Head(targetTag)) IN
                IF i = 0 THEN Thrown("encode: could not find subItem")
                ELSE LET encoded == ClientEncode(dt.subItems[i], value, Tail(targetTag)) IN
                     IF encoded.t = "throw" THEN encoded
                     ELSE [encoded EXCEPT !.offset = @ + tag.offset]
           ELSE encodeItems(tag, dt, value, 1, Zeros(dt.size))
      ELSE Thrown("encode: datatype was not recogniced")

\* dt.subItems.forEach(item => ...) into Buffer.alloc(dt.size)
encodeItems(tag, dt, value, i, buffer) ==
  IF i > Len(dt.subItems) THEN Encoded(tag.offset, tag.size, buffer)
  ELSE LET item == dt.subItems[i] IN
       IF ~hasKey(value, item.name)
       THEN Thrown("encode: cant write structure if not all values are defined")
       ELSE LET encoded == ClientEncode(item, value.m[item.name], <<>>) IN
            IF encoded.t = "throw" THEN encoded
            ELSE encodeItems(tag, dt, value, i + 1,
                             copyInto(buffer, encoded.data, item.offset))

\* The calls of readTag, writeTag and monitorTag in flight at once.
MaxTagCalls == 2

\* The tag paths the callers use ...
Paths ==
  {SymbolNames.arrAlarm,
   SymbolNames.arrAlarm \o <<"[", "2", "]">>,
   SymbolNames.Sym,
   SymbolNames.Sym \o <<".", "C", "o", "u", "n", "t">>,
   SymbolNames.Sym \o <<".", "S", "U", "B">>,
   SymbolNames.Sym \o <<".", "S", "U", "B", ".", "L", "O">>,
   <<".", "s", "y", "m", ".", "s", "u", "b", ".", "l", "o">>,
   SymbolNames.Sym \o <<".", "S", "U", "B", ".", "H", "i">>,
   SymbolNames.txt,
   SymbolNames.mat,
   SymbolNames.n,
   SymbolNames.n \o <<"x">>,
   <<".", "x">>}

\* ... and the values they write to them: values of the type of the tag,
\* strings shorter than the tag and as long as it, objects with a key too few
\* or too many.
SubValue == (<<"L", "O">> :> Num(5)) @@ (<<"H", "i">> :> Num(6))
SymValue == (<<"C", "o", "u", "n", "t">> :> Num(4)) @@ (<<"S", "U", "B">> :> Obj(SubValue))
Writes ==
  {<<SymbolNames.txt, Str(<<"a", "b">>)>>,
   <<SymbolNames.txt, Str(<<"a", "b", "c", "d">>)>>,
   <<SymbolNames.n, Num(3)>>,
   <<SymbolNames.n, Num(300)>>,
   <<SymbolNames.arrAlarm, Arr((1 :> Bool(FALSE)) @@ (2 :> Bool(TRUE)))>>,
   <<SymbolNames.Sym, Obj(SymValue)>>,
   <<SymbolNames.Sym, Obj(SubValue)>>,
   <<SymbolNames.Sym \o <<".", "S", "U", "B">>, Obj(SubValue)>>,
   <<SymbolNames.Sym \o <<".", "S", "U", "B">>, Obj((<<"L", "O">> :> Num(5)))>>,
   <<SymbolNames.Sym \o <<".", "S", "U", "B">>, Obj(SubValue @@ (<<"x">> :> Num(7)))>>,
   <<SymbolNames.Sym \o <<".", "C", "o", "u", "n", "t">>, Num(3)>>,
   <<SymbolNames.Sym \o <<".", "S", "U", "B", ".", "L", "O">>, Num(3)>>,
   << <<".", "s", "y", "m", ".", "s", "u", "b", ".", "l", "o">>, Num(3) >>,
   <<SymbolNames.Sym \o <<".", "S", "U", "B", ".", "H", "i">>, Num(3)>>,
   << <<".", "x">>, Num(3) >>}

\* The memory of the PLC when the Client has connected.
InitialData(i) ==
  CASE Symbols[i].name = SymbolNames.arrAlarm -> <<1, 0>>
    [] Symbols[i].name = SymbolNames.Sym -> <<7, 8, 9>>
    [] Symbols[i].name = SymbolNames.txt -> <<97, 99, 0, 0>>
    [] Symbols[i].name = SymbolNames.mat -> <<11, 12, 21, 22>>
    [] OTHER -> <<44, 1>>

InitialMemory ==
  [a \in Addresses |->
     LET i == CHOOSE j \in 1..Len(Symbols) :
                a - Symbols[j].offset \in 0..(Symbols[j].size - 1)
     IN  InitialData(i)[a - Symbols[i].offset + 1]]

\* No entry of connection.notifications under the name of a symbol.
NoHandle == [handle |-> 0, tagName |-> <<>>, callbacks |-> <<>>]

NoRequest == [t |-> "none", command |-> "none", group |-> 0, offset |-> 0, size |-> 0,
              data |-> <<>>]
NoResult  == [t |-> "pending"]

\* The Client connected, the symbols and the data types loaded, no tag used.
ReadyTags ==
  [memory |-> InitialMemory,
   targetTag |-> [i \in 1..Len(Symbols) |-> <<>>],
   calls |-> 0,
   call |-> <<>>,
   notifications |-> [i \in 1..Len(Symbols) |-> NoHandle],
   handles |-> 0,
   invoked |-> <<>>]

\* The bytes of the PLC at offset, size of them.
MemoryAt(t, offset, size) == [k \in 1..size |-> t.memory[offset + k - 1]]

\* The symbol object with its targetTag as it is now.
SymbolTag(t, i) ==
  [name |-> Symbols[i].name, group |-> Symbols[i].group, offset |-> Symbols[i].offset,
   size |-> Symbols[i].size, type |-> Symbols[i].type, targetTag |-> t.targetTag[i]]

\* Object.values(symbols).find(s => s.systemName ===
\*   systemTagName.substring(0, s.systemName.length)): its place, 0 when absent
findSymbol(systemTagName) ==
  LET M == {i \in 1..Len(Symbols) :
              toUpperCase(Symbols[i].name)
                = substring(systemTagName, 0, Len(Symbols[i].name))}
  IN  IF M = {} THEN 0 ELSE CHOOSE i \in M : \A j \in M : i <= j

\* findTag(tagName): tag.targetTag = systemTagName on the symbol it finds
FindSymbolTag(t, tagName) ==
  LET i == findSymbol(toUpperCase(tagName)) IN
  IF i = 0 THEN t ELSE [t EXCEPT !.targetTag[i] = toUpperCase(tagName)]

\* write(group, offset, size, value): the request, or the throw
WriteAnySize(size, value) == TRUE
WriteSizeOk(size, value) == Len(value) = size

ClientWrite(group, offset, size, value) ==
  IF ~WriteSizeOk(size, value)
  THEN Thrown("expected write size and provided data differs in length")
  ELSE [t |-> "request", command |-> "Write", group |-> group, offset |-> offset,
        size |-> size, data |-> value]

\* writeTag after findTag: encode, the check of the offset, write
WriteTagRequest(tag, value) ==
  LET encoded == ClientEncode(tag, value, targetParts(tag)) IN
  IF encoded.t = "throw" THEN encoded
  ELSE IF encoded.offset < tag.offset \/ encoded.offset > tag.offset + tag.size
  THEN Thrown("writeTag: encoded offset is outside of the symbol offset")
  ELSE ClientWrite(tag.group, encoded.offset, encoded.size, encoded.data)

\* The PLC stores the data of a Write request.
Store(t, request) ==
  [t EXCEPT !.memory = [a \in Addresses |->
                          IF /\ a - request.offset \in 0..(request.size - 1)
                             /\ a - request.offset + 1 \in DOMAIN request.data
                          THEN request.data[a - request.offset + 1]
                          ELSE t.memory[a]]]

\* No tags, no calls.
NoTags == [memory |-> <<>>, targetTag |-> <<>>, calls |-> 0, call |-> <<>>,
           notifications |-> <<>>, handles |-> 0, invoked |-> <<>>]

\* No table being decoded.
NoTables == [kind |-> "none", st |-> "idle", buffer |-> <<>>, count |-> 0]

Turn(op, emitted, frame) == [op |-> op, emit |-> emitted, frame |-> frame]

ConnStart(rc) ==
  /\ connected = FALSE
  /\ socket = "none"
  /\ listening = FALSE
  /\ invokeID = 1
  /\ requests = [i \in InvokeIds |-> {}]
  /\ closeL = {}
  /\ timeouts = {}
  /\ reconnectTimeout = FALSE
  /\ reconnect = rc
  /\ promise = [r \in Slots |-> Idle]
  /\ idOf = [r \in Slots |-> 0]
  /\ sent = {}
  /\ userClosed = FALSE
  /\ last = Turn("init", <<>>, NoFrame)

(***************************************************************************)
(* The Client of main.ts.                                                  *)
(***************************************************************************)
\* Calls of connect, close, readTag and monitorTag that the callers make.
MaxCalls == 3
\* Samples of one DeviceNotification frame.
MaxSamples == 2
\* Callbacks of one registry entry.
MaxCallbacks == 2
\* The limit of 550 notification handles, on the scale of Names.
MaxHandles == 1

Calls == 1..MaxCalls
\* A call issues at most four requests (connect: device info, device state,
\* upload info and symbols; the data types are not loaded, see OptionSets).
ClientIds == 1..(4 * MaxCalls)
\* The symbols of the PLC; the callers use their names as tag names.
Names == {"A", "B"}

NoCont  == [call |-> 0, stage |-> "none", then |-> "none"]
NoEntry == [handle |-> 0, tagName |-> "", callbacks |-> <<>>]
NoCall  == [kind |-> "none", name |-> "", p |-> Idle, value |-> 0, done |-> {}, need |-> 0]

\* The field initialisers of the Client; options are set by the constructor.
InitClient ==
  [ socket        |-> "null",   \* _socket: "null", "connecting", "open", "closed"
    lingering     |-> 0,        \* sockets close() has ended whose 'close' event is due
    owner         |-> 0,        \* the connect() call that made _socket
    invokeID      |-> 1,        \* _invokeID
    requests      |-> {},       \* the keys of _requests
    promise       |-> [i \in ClientIds |-> Idle],   \* the promise of each request()
    cont          |-> [i \in ClientIds |-> NoCont], \* who awaits it, and what for
    cmd           |-> [i \in ClientIds |-> "none"], \* its command
    sent          |-> {},       \* requests the server holds, not yet answered
    connected     |-> FALSE,    \* connection.connected
    uploadInfo    |-> FALSE,    \* connection.uploadInfo is cached
    symbols       |-> FALSE,    \* connection.symbols is loaded
    dataTypes     |-> FALSE,    \* connection.dataTypes is loaded
    notifications |-> [n \in Names |-> NoEntry],    \* connection.notifications
    call          |-> [c \in Calls |-> NoCall],    \* the calls and their promises
    invoked       |-> <<>>,     \* the callbacks this turn has invoked, in order
    uncaught      |-> 0 ]       \* the errors this turn has thrown out of a handler

DefaultOptions ==
  [loadSymbols |-> TRUE, loadDataTypes |-> TRUE, reconnect |-> TRUE]

OptionSets ==
  [loadSymbols : BOOLEAN, loadDataTypes : {FALSE}, reconnect : {TRUE}]

ClientStart(opt) ==
  /\ client = InitClient
  /\ options = opt

ConnInit ==
  /\ \E rc \in BOOLEAN : ConnStart(rc)
  /\ ClientStart(DefaultOptions)
  /\ codec = NoCodec
  /\ tags = NoTags
  /\ tables = NoTables

(***************************************************************************)
(* ADSConnection.close(): detach the socket's handlers and end it.         *)
(* The operators give the socket and its handlers after the call.          *)
(***************************************************************************)
CloseListening(l) == IF socket # "none" THEN FALSE ELSE l
CloseSocket == IF socket \in {"connecting", "open"} THEN "ended" ELSE socket

\* ADSConnection.connect(): close(), then a new socket with the four handlers.
DoConnect ==
  /\ socket' = "connecting"
  /\ listening' = TRUE
  /\ sent' = {}

Connect ==
  /\ DoConnect
  /\ userClosed' = FALSE
  /\ last' = Turn("connect", <<>>, NoFrame)
  /\ UNCHANGED <<tables, tags, codec, client, options, connected, invokeID, requests, closeL, timeouts, reconnectTimeout,
                 reconnect, promise, idOf>>

Close ==
  /\ socket' = CloseSocket
  /\ listening' = CloseListening(listening)
  /\ userClosed' = TRUE
  /\ last' = Turn("close", <<>>, NoFrame)
  /\ UNCHANGED <<tables, tags, codec, client, options, connected, invokeID, requests, closeL, timeouts, reconnectTimeout,
                 reconnect, promise, idOf, sent>>

(***************************************************************************)
(* ADSConnection.request(command, data).                                   *)
(***************************************************************************)
\* if (this.invokeID >= MAX_SAFE_INVOKEID) this.invokeID = 1; const { invokeID } = this
AllocNoWrap(counter) == [id |-> counter, next |-> counter + 1]
Alloc(counter) ==
  LET id == IF counter >= MAX_SAFE_INVOKEID THEN 1 ELSE counter
  IN  [id |-> id, next |-> id + 1]

\* if (this.requests.listenerCount(reqId) > 0) throw ...
NeverPending(id) == FALSE
IsPending(id) == requests[id] # {}

\* timeout = setTimeout(..., REQUEST_TIMEOUT)
StartNoTimer(r) == timeouts
StartTimer(r) == timeouts \cup {r}

\* The calls are numbered in the order they are made.
Request(r) ==
  /\ promise[r].st = "idle"
  /\ \A q \in Slots : q < r => promise[q].st # "idle"
  /\ last' = Turn("request", <<>>, NoFrame)
  /\ IF ~connected
     THEN /\ promise' = [promise EXCEPT ![r] = Rejected("Not connected")]
          /\ UNCHANGED <<invokeID, idOf, requests, closeL, timeouts, sent>>
     ELSE LET a == Alloc(invokeID) IN
          /\ invokeID' = a.next
          /\ idOf' = [idOf EXCEPT ![r] = a.id]
          /\ IF IsPending(a.id)
             THEN /\ promise' = [promise EXCEPT ![r] = Rejected("Request is allready pending")]
                  /\ UNCHANGED <<requests, closeL, timeouts, sent>>
             ELSE IF socket = "none"
             THEN /\ promise' = [promise EXCEPT ![r] = Rejected("Not connected")]
                  /\ UNCHANGED <<requests, closeL, timeouts, sent>>
             ELSE /\ promise' = [promise EXCEPT ![r] = Pending]
                  /\ closeL' = closeL \cup {r}
                  /\ requests' = [requests EXCEPT ![a.id] = @ \cup {r}]
                  /\ timeouts' = StartTimer(r)
                  \* this.socket.write(packet): an ended or closed socket sends nothing
                  /\ sent' = IF socket \in {"connecting", "open"} THEN sent \cup {r} ELSE sent
  /\ UNCHANGED <<tables, tags, codec, client, options, connected, socket, listening, reconnectTimeout, reconnect, userClosed>>

\* ADSConnection.isConnected(): !!(this.socket && this.connected)
isConnected == socket # "none" /\ connected

\* The timer of request(): cleanup(), then reject.
TimeoutKeepsWaiter(r) == requests
TimeoutRequests(r) == [requests EXCEPT ![idOf[r]] = {}]

Timeout(r) ==
  /\ r \in timeouts
  /\ timeouts' = timeouts \ {r}
  /\ requests' = TimeoutRequests(r)
  /\ closeL' = closeL \ {r}
  /\ promise' = [promise EXCEPT ![r] =
        Settle(@, IF socket = "none" THEN Rejected("Not connected")
                  ELSE Rejected("Request timeout"))]
  /\ last' = Turn("timeout", <<>>, NoFrame)
  /\ UNCHANGED <<tables, tags, codec, client, options, connected, socket, listening, invokeID, reconnectTimeout, reconnect,
                 idOf, sent, userClosed>>

(***************************************************************************)
(* ADSConnection.connectHandler: the socket's 'connect' event.             *)
(***************************************************************************)
ConnectHandler ==
  /\ socket = "connecting"
  /\ listening
  /\ socket' = "open"
  /\ connected' = TRUE
  /\ last' = Turn("connectHandler", <<"connected">>, NoFrame)
  /\ UNCHANGED <<tables, tags, codec, client, options, listening, invokeID, requests, closeL, timeouts, reconnectTimeout,
                 reconnect, promise, idOf, sent, userClosed>>

(***************************************************************************)
(* ADSConnection.dataHandler: one packet of the server.  A response to the *)
(* request of slot r carries r's invoke ID; requests.emit(`req:ID`) runs   *)
(* the waiters of that ID: cleanup(), then resolve or reject.              *)
(***************************************************************************)
\* this.requests.emit(`req:${packet.header.invokeId}`, response)
EmitKey(frame) == frame.invokeId

Woken(frame) == IF EmitKey(frame) \in InvokeIds THEN requests[EmitKey(frame)] ELSE {}

DataHandler(r, code) ==
  /\ socket = "open"
  /\ listening
  /\ r \in sent
  /\ LET frame == [invokeId |-> idOf[r], errorCode |-> code, type |-> "response"]
         woken == Woken(frame)
     IN  /\ sent' = sent \ {r}
         /\ requests' = [i \in InvokeIds |->
                           IF \E w \in woken : idOf[w] = i \/ i = EmitKey(frame)
                           THEN {} ELSE requests[i]]
         /\ closeL' = closeL \ woken
         /\ timeouts' = timeouts \ woken
         /\ promise' = [s \in Slots |->
                          IF s \in woken
                          THEN Settle(promise[s], IF code # 0 THEN AdsError(code) ELSE Resolved)
                          ELSE promise[s]]
         /\ last' = Turn("dataHandler", <<>>, frame)
  /\ UNCHANGED <<tables, tags, codec, client, options, connected, socket, listening, invokeID, reconnectTimeout, reconnect,
                 idOf, userClosed>>

\* A DeviceNotification packet: this.emit('notification', response).
NotificationData ==
  /\ socket = "open"
  /\ listening
  /\ last' = Turn("dataHandler", <<"notification">>,
                  [invokeId |-> 0, errorCode |-> 0, type |-> "notification"])
  /\ UNCHANGED <<tables, tags, codec, client, options, connected, socket, listening, invokeID, requests, closeL, timeouts,
                 reconnectTimeout, reconnect, promise, idOf, sent, userClosed>>

(***************************************************************************)
(* ADSConnection.errorHandler and closeHandler: the socket's 'error' (when *)
(* hadError) and 'close' events.  emit('close') runs the `disconnected`    *)
(* listeners of the waiting requests.                                      *)
(***************************************************************************)
ArmAlways == TRUE
ArmReconnect == reconnect = TRUE

CloseHandler(hadError) ==
  /\ socket \in {"connecting", "open"}
  /\ listening
  /\ socket' = "closed"
  /\ connected' = FALSE
  /\ requests' = [i \in InvokeIds |->
                    IF \E w \in closeL : idOf[w] = i THEN {} ELSE requests[i]]
  /\ promise' = [s \in Slots |->
                   IF s \in closeL THEN Settle(promise[s], Rejected("Disconnected"))
                   ELSE promise[s]]
  /\ closeL' = {}
  /\ reconnectTimeout' = ArmReconnect
  /\ sent' = {}
  /\ last' = Turn("closeHandler",
                  IF hadError THEN <<"error", "close">> ELSE <<"close">>, NoFrame)
  /\ UNCHANGED <<tables, tags, codec, client, options, listening, invokeID, timeouts, reconnect, idOf, userClosed>>

\* The reconnect timer: emit('reconnect'), then connect().
ReconnectTimer ==
  /\ reconnectTimeout
  /\ reconnectTimeout' = FALSE
  /\ DoConnect
  /\ last' = Turn("reconnectTimer", <<"reconnect">>, NoFrame)
  /\ UNCHANGED <<tables, tags, codec, client, options, connected, invokeID, requests, closeL, timeouts, reconnect, promise,
                 idOf, userClosed>>

ConnNext ==
  \/ Connect
  \/ Close
  \/ \E r \in Slots : Request(r)
  \/ \E r \in Slots : Timeout(r)
  \/ ConnectHandler
  \/ \E r \in Slots, code \in RespCodes : DataHandler(r, code)
  \/ NotificationData
  \/ \E hadError \in BOOLEAN : CloseHandler(hadError)
  \/ ReconnectTimer

ConnSpec == ConnInit /\ [][ConnNext]_vars

\* The timers of Node fire once they are due.
ConnFairness ==
  /\ \A r \in Slots : WF_vars(Timeout(r))
  /\ WF_vars(ReconnectTimer)

ConnLiveSpec == ConnSpec /\ ConnFairness

(***************************************************************************)
(* Properties of ADSConnection.                                            *)
(***************************************************************************)
Settled(p) == p.st \in {"resolved", "rejected"}

\* C1: the promise of every request is settled exactly once: once it is
\* resolved or rejected it never changes again (a later timer or response
\* does not settle it a second time), and no request stays pending for ever.
C1_SettledExactlyOnce ==
  /\ [][\A r \in Slots : Settled(promise[r]) => promise'[r] = promise[r]]_vars
  /\ \A r \in Slots : (promise[r].st = "pending") ~> Settled(promise[r])

\* A request failed by the session's close whose timer has fired afterwards.
C1_Witness ==
  /\ last.op = "timeout"
  /\ \E r \in Slots :
       promise[r] = Rejected("Disconnected") /\ r \notin timeouts
  /\ \E r \in Slots : promise[r] = Resolved

\* C2: no two waiting requests hold the same invoke ID, every waiter is
\* registered under the ID its request was sent with, and a response frame
\* with invoke ID i settles only requests that were sent with i.
C2_InvokeIdCorrelation ==
  [][ /\ \A i \in InvokeIds :
          /\ Cardinality(requests'[i]) <= 1
          /\ \A r \in requests'[i] : idOf'[r] = i
      /\ \A r \in Slots :
          (last'.op = "dataHandler" /\ promise'[r] # promise[r])
             => (last'.frame.type = "response" /\ last'.frame.invokeId = idOf[r])
    ]_vars

\* Two requests wait under different IDs and the response to the later one
\* has been read first.
C2_Witness ==
  \E r, q \in Slots :
    /\ idOf[r] # 0 /\ idOf[q] # 0 /\ idOf[r] # idOf[q]
    /\ promise[r].st = "pending" /\ r \in requests[idOf[r]]
    /\ promise[q] = Resolved
    /\ last.op = "dataHandler" /\ last.frame.invokeId = idOf[q]
    /\ invokeID = idOf[q] + 1

\* C3: when the session ends, by close() or by the transport, every request
\* that is pending fails with the disconnect error in that very turn.
C3_PendingFailOnSessionEnd ==
  [][ (socket = "open" /\ last'.op \in {"close", "closeHandler"})
        => \A r \in Slots :
             promise[r].st = "pending" => promise'[r] = Rejected("Disconnected")
    ]_vars

\* C4: a request whose timer fires while it is pending fails with the
\* request-timeout error and its waiter is removed; a response that arrives
\* for an ID nobody waits for completes no request, and a timed-out request
\* stays timed out; an ID is only ever taken from the counter, which then
\* moves on by one.
C4_RequestTimeout ==
  [][ /\ \A r \in Slots :
          (last'.op = "timeout" /\ r \in timeouts /\ r \notin timeouts'
             /\ promise[r].st = "pending")
            => /\ promise'[r] = Rejected("Request timeout")
               /\ requests'[idOf[r]] = {}
      /\ \A r \in Slots :
          promise'[r] = Rejected("Request timeout")
            => /\ r \notin requests'[idOf'[r]]
               /\ (promise[r] = Rejected("Request timeout") => idOf'[r] = idOf[r])
      /\ \A r \in Slots :
          promise[r] = Rejected("Request timeout") => promise'[r] = promise[r]
      /\ (last'.op = "dataHandler" /\ last'.frame.type = "response"
            /\ requests[last'.frame.invokeId] = {}) => promise' = promise
      /\ \A r \in Slots :
          idOf'[r] # idOf[r]
            => /\ idOf'[r] = (IF invokeID >= MAX_SAFE_INVOKEID THEN 1 ELSE invokeID)
               /\ invokeID' = idOf'[r] + 1
    ]_vars

\* The response to a request that has timed out is read while nobody waits
\* for its ID.
C4_Witness ==
  \E r \in Slots :
    /\ promise[r] = Rejected("Request timeout")
    /\ last.op = "dataHandler" /\ last.frame.invokeId = idOf[r]
    /\ socket = "open"
    /\ \A q \in Slots : idOf[q] = idOf[r] => q = r

\* C6: with options.reconnect, every 'close' of the transport is followed by
\* the 'reconnect' event and a new connect attempt; without it the reconnect
\* timer is never started and 'reconnect' is never emitted.
C6_ReconnectAfterClose ==
  /\ (reconnect /\ last.op = "closeHandler")
        ~> (last.emit = <<"reconnect">> /\ socket = "connecting" /\ listening)
  /\ [](~reconnect => (~reconnectTimeout /\ last.op # "reconnectTimer"))

C6_Witness ==
  /\ reconnect
  /\ last.emit = <<"reconnect">>
  /\ socket = "connecting"

\* C7: once the user has called close(), no 'reconnect' event, connect
\* attempt or 'connected' event happens until the user calls connect().
C7_CloseStopsReconnect ==
  [][ (userClosed /\ userClosed')
        => /\ last'.op \notin {"reconnectTimer", "connectHandler"}
           /\ socket' # "connecting"
    ]_vars

\* C28: the invoke ID of a request is never 0: the counter starts at 1, a
\* request takes the counter's value and leaves the counter one higher, and
\* when the counter has reached MAX_SAFE_INVOKEID the next ID is 1.
C28_InvokeIdWraps ==
  /\ invokeID = 1
  /\ [](invokeID \in 1..MAX_SAFE_INVOKEID)
  /\ [][ \A r \in Slots :
          idOf'[r] # idOf[r]
            => /\ idOf'[r] \in 1..(MAX_SAFE_INVOKEID - 1)
               /\ idOf'[r] = (IF invokeID = MAX_SAFE_INVOKEID THEN 1 ELSE invokeID)
               /\ invokeID' = idOf'[r] + 1
               /\ \A q \in Slots \ {r} : idOf'[q] = idOf[q] ]_vars

\* The counter has wrapped: the request after the one with the highest ID
\* has the ID 1.
C28_Witness ==
  \E r, q \in Slots :
    /\ r < q
    /\ idOf[r] = MAX_SAFE_INVOKEID - 1
    /\ idOf[q] = 1
    /\ invokeID = 2

(***************************************************************************)
(* The Client of main.ts.  Its handlers issue several requests in one turn *)
(* (connect's preload, close's unsubscribes), so they are written as       *)
(* operators from the Client's fields to the Client's fields.              *)
(***************************************************************************)
\* The model keeps the outcome of a promise for the turn that settles it and
\* forgets it when the next turn begins.  It forgets a request that has left
\* _requests in the same way: neither its callback nor its timer can settle
\* its promise any more.  The promise of a call stays pending until settled.
Gone == [st |-> "gone", msg |-> "", code |-> 0]

Forget(s) ==
  [s EXCEPT
     !.call = [c \in Calls |->
                 IF s.call[c].p.st \in {"resolved", "rejected"}
                 THEN [NoCall EXCEPT !.kind = "done", !.p = Gone]
                 ELSE s.call[c]],
     !.promise = [i \in ClientIds |->
                    IF i \in s.requests \/ s.promise[i].st = "idle" THEN s.promise[i]
                    ELSE Gone],
     !.cont = [i \in ClientIds |-> IF i \in s.requests THEN s.cont[i] ELSE NoCont],
     !.cmd = [i \in ClientIds |-> IF i \in s.requests THEN s.cmd[i] ELSE "none"],
     !.invoked = <<>>,
     !.uncaught = 0]

\* The Client as a turn finds it.
Now == Forget(client)

\* reject(err) of the promise of call c.  close() awaits its unsubscribes with
\* Promise.all(...).then(...) and no catch: a rejection is dropped there.
\* A rejection that no call awaits (c = 0) is dropped as well.
ClientFail(s, c, err) ==
  IF c \notin Calls THEN s
  ELSE IF s.call[c].kind = "close" THEN s
  ELSE [s EXCEPT !.call[c].p = Settle(@, err)]

\* Client.request(command, data), awaited by call c for `stage`.
ClientRequest(s, c, command, stage, then) ==
  LET id == s.invokeID
      s1 == [s EXCEPT !.invokeID = id + 1,
                      !.cont[id] = [call |-> c, stage |-> stage, then |-> then],
                      !.cmd[id] = command]
  IN  IF s.socket # "null"
      THEN [s1 EXCEPT !.requests = @ \cup {id},
                      !.promise[id] = Pending,
                      \* _socket.write(packet): a closed socket sends nothing
                      !.sent = IF s.socket \in {"connecting", "open"} THEN @ \cup {id} ELSE @]
      ELSE ClientFail([s1 EXCEPT !.promise[id] = Rejected("request: not connected")],
                      c, Rejected("request: not connected"))

\* getUploadInfo() as getSymbols (for connect "presym", for findTag "sym")
\* and getDataTypes ("dt") await it: the
\* cached record when it is less than 10 s old (fresh), or a read of
\* SYM_UPLOADINFO2 followed by the table's read.
GetUploadInfo(s, c, then, fresh) ==
  IF s.uploadInfo /\ fresh THEN ClientRequest(s, c, "Read", then, "none")
  ELSE ClientRequest(s, c, "Read", "uinfo", then)

AlwaysSubscribe(s, n) == FALSE
HasEntry(s, n) == s.notifications[n] # NoEntry

\* readTag, stopMonitorTag and monitorTag once findTag has resolved the tag.
\* stopMonitorTag does not look at its callback argument.
AfterFind(s, c) ==
  LET n == s.call[c].name IN
  IF s.call[c].kind = "read"
  THEN ClientRequest(s, c, "Read", "read", "none")
  ELSE IF s.call[c].kind = "stop"
  THEN IF ~HasEntry(s, n) THEN [s EXCEPT !.call[c].p = Settle(@, Resolved)]
       ELSE ClientRequest(s, c, "DeleteDeviceNotification", "stopunsub", "none")
  ELSE IF HasEntry(s, n)
  THEN [s EXCEPT !.notifications[n].callbacks = Append(@, c),
                 !.call[c].p = Settle(@, Resolved),
                 !.call[c].value = s.notifications[n].handle]
  ELSE ClientRequest(s, c, "AddDeviceNotification", "sub", "none")

\* findTag: load the symbols when they are absent, then look the tag up.
FindTag(s, c, fresh) ==
  IF ~s.symbols THEN GetUploadInfo(s, c, "sym", fresh) ELSE AfterFind(s, c)

\* Promise.all of connect(): resolve once every part of the preload is there.
Needed ==
  {"info", "state"} \cup (IF options.loadSymbols THEN {"symbols"} ELSE {})
                    \cup (IF options.loadDataTypes THEN {"datatypes"} ELSE {})

PreloadDone(s, c, part) ==
  LET d == s.call[c].done \cup {part} IN
  IF s.call[c].p.st # "pending" THEN s
  ELSE [s EXCEPT !.call[c].done = d,
                 !.call[c].p = IF d = Needed THEN Resolved ELSE @]

\* this.connection = { connected: false, ..., notifications: {} }
ResetConnection(s) ==
  [s EXCEPT !.connected = FALSE, !.uploadInfo = FALSE, !.symbols = FALSE,
            !.dataTypes = FALSE, !.notifications = [n \in Names |-> NoEntry]]

\* close() after its unsubscribes: end the socket, drop it, done().
FinishClose(s, c) ==
  LET s1 == [s EXCEPT !.lingering = IF s.socket \in {"connecting", "open"} THEN @ + 1 ELSE @,
                      !.socket = "null",
                      !.sent = {}]
  IN  [ResetConnection(s1) EXCEPT !.call[c].p = Settle(@, Resolved)]

\* notificationHandle.callbacks.forEach(callback => callback(parsed, timestamp))
\* with the callbacks of `bad` throwing: forEach ends at the first throw.
Upto(cbs, bad) ==
  LET T == {j \in 1..Len(cbs) : cbs[j] \in bad} IN
  IF T = {} THEN cbs ELSE SubSeq(cbs, 1, CHOOSE j \in T : \A k \in T : j <= k)

InvokeAll(s, i, cbs, bad) ==
  LET run == Upto(cbs, bad) IN
  [s EXCEPT !.invoked = @ \o [j \in 1..Len(run) |-> [sample |-> i, cb |-> run[j]]],
            !.uncaught = IF run # <<>> /\ run[Len(run)] \in bad THEN @ + 1 ELSE @]

\* Object.values(notifications).find(nh => nh.handle === handle)
AnyEntry(s, h) == {n \in Names : s.notifications[n] # NoEntry}
EntryOf(s, h) ==
  {n \in Names : s.notifications[n] # NoEntry /\ s.notifications[n].handle = h}

\* The stage of the table read that a sample of entry n waits for.
NotifyStage(n) == "nsym" \o n

\* notificationHandler: the samples of a DeviceNotification frame from the
\* i-th on.  findTag resolves at once when the symbols are loaded; else it
\* loads them first and the callbacks run on the response.
RECURSIVE Demux(_, _, _, _, _)
Demux(s, samples, i, bad, fresh) ==
  IF i > Len(samples) THEN s
  ELSE LET found == EntryOf(s, samples[i])
           n == CHOOSE x \in found : TRUE
           s1 == IF found = {} THEN s
                 ELSE IF s.symbols
                 THEN InvokeAll(s, i, s.notifications[n].callbacks, bad)
                 ELSE GetUploadInfo(s, 0, NotifyStage(n), fresh)
       IN  Demux(s1, samples, i + 1, bad, fresh)

\* The reactions to resolve(resp) of request id.
ClientResolved(s, id, frame) ==
  LET k == s.cont[id]
      c == k.call
  IN  CASE k.stage = "info"  -> PreloadDone(s, c, "info")
        [] k.stage = "state" -> PreloadDone(s, c, "state")
        [] k.stage = "uinfo" ->
             ClientRequest([s EXCEPT !.uploadInfo = TRUE], c, "Read", k.then, "none")
        [] k.stage = "presym" -> PreloadDone([s EXCEPT !.symbols = TRUE], c, "symbols")
        [] k.stage = "sym"   -> AfterFind([s EXCEPT !.symbols = TRUE], c)
        [] k.stage \in {NotifyStage(n) : n \in Names} ->
             LET n == CHOOSE x \in Names : NotifyStage(x) = k.stage IN
             InvokeAll([s EXCEPT !.symbols = TRUE], 0, s.notifications[n].callbacks, {})
        [] k.stage = "dt"    -> PreloadDone([s EXCEPT !.dataTypes = TRUE], c, "datatypes")
        [] k.stage = "read"  -> [s EXCEPT !.call[c].p = Settle(@, Resolved)]
        [] k.stage = "sub"   ->
             [s EXCEPT !.notifications[s.call[c].name] =
                          [handle |-> frame.handle, tagName |-> s.call[c].name,
                           callbacks |-> <<c>>],
                       !.call[c].p = Settle(@, Resolved),
                       !.call[c].value = frame.handle]
        [] k.stage = "stopunsub" ->
             [s EXCEPT !.notifications[s.call[c].name] = NoEntry,
                       !.call[c].p = Settle(@, Resolved)]
        [] k.stage = "unsub" ->
             LET s1 == [s EXCEPT !.call[c].need = @ - 1] IN
             IF s1.call[c].need = 0 THEN FinishClose(s1, c) ELSE s1
        [] OTHER -> s

\* The callback request() stores in _requests, on a response with an error
\* code: delete this._requests[invokeID]; throw new Error(...).
ThrowAdsError(s, id, code) ==
  [s EXCEPT !.requests = @ \ {id}, !.uncaught = @ + 1]

\* The response of the PLC to request id; it gives a new notification handle
\* in the response to AddDeviceNotification (here the number of the request,
\* which no other subscription has).
ClientFrame(s, id, code) ==
  [invokeId |-> id, errorCode |-> code, type |-> s.cmd[id],
   handle |-> IF s.cmd[id] = "AddDeviceNotification" /\ code = 0 THEN id ELSE 0]

\* Client.dataHandler on the response to request id.
ClientData(s0, id, code) ==
  LET frame == ClientFrame(s0, id, code)
      s == [s0 EXCEPT !.sent = @ \ {id}]
  IN  IF id \notin s.requests THEN s
      ELSE IF code # 0 THEN ThrowAdsError(s, id, code)
      ELSE ClientResolved([s EXCEPT !.requests = @ \ {id},
                                    !.promise[id] = Settle(@, Resolved)], id, frame)

\* The calls are numbered in the order they are made.
NextCall(c) ==
  /\ client.call[c].kind = "none"
  /\ \A d \in Calls : d < c => client.call[d].kind # "none"

Begin(c, kind, n) ==
  [Now EXCEPT
     !.call[c] = [NoCall EXCEPT !.kind = kind, !.name = n, !.p = Pending]]

\* Client.connect()
ClientConnect(c) ==
  /\ NextCall(c)
  /\ LET s == Begin(c, "connect", "") IN
     client' = IF s.socket # "null"
               THEN ClientFail(s, c, Rejected("disconnect before starting a new connection"))
               ELSE [s EXCEPT !.socket = "connecting", !.connected = FALSE,
                              !.owner = c, !.sent = {}]
  /\ UNCHANGED <<connVars, options, codec, tags, tables>>

\* The 'connect' event of _socket: connectHandler(), then the preload.
ClientConnectHandler(fresh) ==
  /\ client.socket = "connecting"
  /\ LET c  == client.owner
         s0 == [Now EXCEPT !.socket = "open", !.connected = TRUE]
         s1 == ClientRequest(s0, c, "ReadDeviceInfo", "info", "none")
         s2 == ClientRequest(s1, c, "ReadState", "state", "none")
         s3 == IF options.loadSymbols THEN GetUploadInfo(s2, c, "presym", fresh) ELSE s2
         s4 == IF options.loadDataTypes THEN GetUploadInfo(s3, c, "dt", fresh) ELSE s3
     IN  client' = s4
  /\ UNCHANGED <<connVars, options, codec, tags, tables>>

\* Client.close(): unsubscribe every handle, then end the socket.
RECURSIVE UnsubscribeAll(_, _, _)
UnsubscribeAll(s, c, names) ==
  IF names = {} THEN s
  ELSE LET n == CHOOSE x \in names : TRUE IN
       UnsubscribeAll(ClientRequest(s, c, "DeleteDeviceNotification", "unsub", "none"),
                      c, names \ {n})

ClientClose(c) ==
  /\ NextCall(c)
  /\ LET s == Begin(c, "close", "")
         registered == {n \in Names : HasEntry(s, n)}
         s1 == [s EXCEPT !.call[c].need = Cardinality(registered)]
     IN  client' = IF s.socket = "null"
                   THEN [ResetConnection(s) EXCEPT !.call[c].p = Settle(@, Resolved)]
                   ELSE IF registered = {} THEN FinishClose(s1, c)
                   ELSE UnsubscribeAll(s1, c, registered)
  /\ UNCHANGED <<connVars, options, codec, tags, tables>>

\* Client.readTag(tagName)
ReadTag(c, n, fresh) ==
  /\ NextCall(c)
  /\ client' = FindTag(Begin(c, "read", ""), c, fresh)
  /\ UNCHANGED <<connVars, options, codec, tags, tables>>

\* Client.monitorTag(tagName, callback); the callback is named by the call.
MonitorTag(c, n, fresh) ==
  /\ NextCall(c)
  /\ client' = FindTag(Begin(c, "monitor", n), c, fresh)
  /\ UNCHANGED <<connVars, options, codec, tags, tables>>

\* Client.stopMonitorTag(tagName, callback)
StopMonitorTag(c, n, cb, fresh) ==
  /\ NextCall(c)
  /\ client' = FindTag(Begin(c, "stop", n), c, fresh)
  /\ UNCHANGED <<connVars, options, codec, tags, tables>>

\* The 'data' event of _socket with the response to request id.  The PLC
\* answers the requests of a socket in the order it received them.
ClientDataHandler(id, code) ==
  /\ client.socket = "open"
  /\ id \in client.sent
  /\ \A j \in client.sent : id <= j
  /\ client' = ClientData(Now, id, code)
  /\ UNCHANGED <<connVars, options, codec, tags, tables>>

\* The callbacks of the registry.
Registered(s) ==
  UNION {{s.notifications[n].callbacks[j] : j \in 1..Len(s.notifications[n].callbacks)} :
         n \in Names}

\* The 'data' event of _socket with a DeviceNotification frame whose samples
\* carry the given handles: handles of the registry, or 0, which no entry has.
\* The callbacks of `bad` throw.  A sample that finds the symbols missing
\* issues two requests.
ClientNotification(samples, bad, fresh) ==
  /\ client.socket = "open"
  /\ \A i \in 1..Len(samples) : samples[i] = 0 \/ EntryOf(client, samples[i]) # {}
  /\ bad \subseteq Registered(client)
  /\ client.symbols \/ client.invokeID + 2 * Len(samples) - 1 \in ClientIds
  /\ client' = Demux(Now, samples, 1, bad, fresh)
  /\ UNCHANGED <<connVars, options, codec, tags, tables>>

\* The 30 s timer of request(): if (this._requests[invokeID]) { delete; reject }
\* The timers have one duration, so they fire in the order of the requests.
ClientTimeout(id) ==
  /\ id \in client.requests
  /\ \A j \in client.requests : id <= j
  /\ LET s == [Now EXCEPT
                  !.requests = @ \ {id},
                  !.sent = @ \ {id},
                  !.promise[id] = Settle(@, Rejected("request: timeout"))]
     IN  client' = ClientFail(s, s.cont[id].call, Rejected("request: timeout"))
  /\ UNCHANGED <<connVars, options, codec, tags, tables>>

\* errorHandler (when hadError) and closeHandler: the 'close' event of _socket.
ClientCloseHandler(hadError) ==
  /\ client.socket \in {"connecting", "open"}
  /\ client' = ResetConnection([Now EXCEPT !.socket = "closed", !.sent = {}])
  /\ UNCHANGED <<connVars, options, codec, tags, tables>>

\* The 'close' event of a socket that close() has ended: close() leaves the
\* handlers attached.
LingeringCloseHandler ==
  /\ client.lingering > 0
  /\ client' = ResetConnection([Now EXCEPT !.lingering = @ - 1])
  /\ UNCHANGED <<connVars, options, codec, tags, tables>>

ClientInit ==
  /\ ConnStart(TRUE)
  /\ \E opt \in OptionSets : ClientStart(opt)
  /\ codec = NoCodec
  /\ tags = NoTags
  /\ tables = NoTables

ClientNext ==
  \/ \E c \in Calls : ClientConnect(c)
  \/ \E c \in Calls : ClientClose(c)
  \/ \E c \in Calls, n \in Names, fresh \in BOOLEAN : ReadTag(c, n, fresh)
  \/ \E c \in Calls, n \in Names, fresh \in BOOLEAN : MonitorTag(c, n, fresh)
  \/ \E fresh \in BOOLEAN : ClientConnectHandler(fresh)
  \/ \E id \in ClientIds, code \in ClientRespCodes : ClientDataHandler(id, code)
  \/ \E id \in ClientIds : ClientTimeout(id)
  \/ \E hadError \in BOOLEAN : ClientCloseHandler(hadError)
  \/ LingeringCloseHandler

ClientSpec == ClientInit /\ [][ClientNext]_vars

\* The timers of Node fire once they are due.
ClientFairness == \A id \in ClientIds : WF_vars(ClientTimeout(id))

ClientLiveSpec == ClientSpec /\ ClientFairness

\* The frames the PLC sends: at most MaxSamples samples, each for a handle of
\* the registry or for 0, which no entry has.
Frames(s) ==
  LET handles == {0} \cup {s.notifications[n].handle : n \in Names}
  IN  UNION {[1..k -> handles] : k \in 1..MaxSamples}

\* The Client with the callers that monitor tags and stop monitoring them.
RegistryNext ==
  \/ \E c \in Calls : ClientConnect(c)
  \/ \E c \in Calls, n \in Names, fresh \in BOOLEAN : MonitorTag(c, n, fresh)
  \/ \E c \in Calls, n \in Names, cb \in Calls, fresh \in BOOLEAN :
       StopMonitorTag(c, n, cb, fresh)
  \/ \E fresh \in BOOLEAN : ClientConnectHandler(fresh)
  \/ \E id \in ClientIds, code \in ClientRespCodes : ClientDataHandler(id, code)
  \/ \E id \in ClientIds : ClientTimeout(id)
  \/ \E hadError \in BOOLEAN : ClientCloseHandler(hadError)

RegistrySpec == ClientInit /\ [][RegistryNext]_vars

\* The Client with the callers that monitor tags, and the notifications of
\* the PLC.
NotifyNext ==
  \/ \E c \in Calls : ClientConnect(c)
  \/ \E c \in Calls, n \in Names, fresh \in BOOLEAN : MonitorTag(c, n, fresh)
  \/ \E fresh \in BOOLEAN : ClientConnectHandler(fresh)
  \/ \E id \in ClientIds, code \in ClientRespCodes : ClientDataHandler(id, code)
  \/ \E hadError \in BOOLEAN : ClientCloseHandler(hadError)
  \/ \E samples \in Frames(client), bad \in SUBSET Registered(client), fresh \in BOOLEAN :
       ClientNotification(samples, bad, fresh)

NotifySpec == ClientInit /\ [][NotifyNext]_vars

\* notificationHandler as a function of the registry and the frame.  The
\* registries that monitorTag builds: a name has no entry, or an entry with
\* the handle the PLC gave for it and the callbacks in the order they came.
\* A callback is named by the monitorTag call that brought it, so no callback
\* is in the registry twice.
HandleOf(n) == IF n = "A" THEN 1 ELSE 2

CallbackLists == UNION {[1..k -> Calls] : k \in 1..MaxCallbacks}

Registries ==
  [Names -> {NoEntry}] \cup
  {reg \in [Names -> {NoEntry} \cup
                     [handle : {HandleOf(n) : n \in Names}, tagName : Names,
                      callbacks : CallbackLists]] :
     /\ \A n \in Names : reg[n] # NoEntry =>
                            reg[n].tagName = n /\ reg[n].handle = HandleOf(n)
     /\ \A n, m \in Names :
          \A i \in 1..Len(reg[n].callbacks), j \in 1..Len(reg[m].callbacks) :
            reg[n].callbacks[i] = reg[m].callbacks[j] => n = m /\ i = j}

\* A connected Client with the symbols loaded and a registry; every call that
\* built it has ended.
DemuxInit ==
  /\ ConnStart(TRUE)
  /\ codec = NoCodec
  /\ tags = NoTags
  /\ tables = NoTables
  /\ options = DefaultOptions
  /\ \E reg \in Registries :
       client = [InitClient EXCEPT
                   !.socket = "open", !.connected = TRUE, !.owner = 1,
                   !.invokeID = 1 + Cardinality(Names),
                   !.uploadInfo = TRUE, !.symbols = TRUE, !.dataTypes = TRUE,
                   !.notifications = reg,
                   !.call = [c \in Calls |-> [NoCall EXCEPT !.kind = "done", !.p = Gone]]]

\* One frame for each registry.
DemuxNext ==
  \E samples \in Frames(client), bad \in SUBSET Registered(client) :
    /\ client.invoked = <<>>
    /\ client.uncaught = 0
    /\ ClientNotification(samples, bad, TRUE)

DemuxSpec == DemuxInit /\ [][DemuxNext]_vars

\* The 'data' event of _socket with a DeviceNotification frame whose invoke-ID
\* field is nid: dataHandler first calls the callback that _requests holds
\* under the invoke ID of the packet, whatever its type, then hands the
\* packet to notificationHandler.  resp.data of such a frame begins with the
\* number of its stamps, 1.
ClientNotificationFor(nid, samples) ==
  /\ client.socket = "open"
  /\ client.symbols
  /\ \A i \in 1..Len(samples) : samples[i] = 0 \/ EntryOf(client, samples[i]) # {}
  /\ LET s     == Now
         frame == [invokeId |-> nid, errorCode |-> 0, type |-> "DeviceNotification",
                   handle |-> 1]
         s1    == Demux(s, samples, 1, {}, TRUE)
     IN  client' = IF nid \in s.requests
                   THEN ClientResolved([s1 EXCEPT !.requests = @ \ {nid},
                                                  !.promise[nid] = Settle(@, Resolved)],
                                       nid, frame)
                   ELSE s1
  /\ UNCHANGED <<connVars, options, codec, tags, tables>>

\* The 'data' event of _socket with two packets: the response to request id
\* and, behind it, a DeviceNotification frame with one sample for the handle
\* that the response gives.  packets.forEach runs to its end, looking the
\* handle of the sample up in the registry, before any reaction to
\* resolve(resp) runs.
ClientResponseAndNotification(id) ==
  /\ client.socket = "open"
  /\ client.symbols
  /\ id \in client.sent
  /\ \A j \in client.sent : id <= j
  /\ LET s  == Now
         s1 == Demux(s, <<ClientFrame(s, id, 0).handle>>, 1, {}, TRUE)
     IN  client' = ClientData(s1, id, 0)
  /\ UNCHANGED <<connVars, options, codec, tags, tables>>

\* A connected Client whose connect() call, the first, has ended: it has made
\* four requests and loaded the symbols.
InterleaveInit ==
  /\ ConnStart(TRUE)
  /\ codec = NoCodec
  /\ tags = NoTags
  /\ tables = NoTables
  /\ options = [DefaultOptions EXCEPT !.loadDataTypes = FALSE]
  /\ client = [InitClient EXCEPT
                 !.socket = "open", !.connected = TRUE, !.owner = 1,
                 !.invokeID = 5, !.uploadInfo = TRUE, !.symbols = TRUE,
                 !.call[1] = [NoCall EXCEPT !.kind = "done", !.p = Gone]]

\* The callers read and monitor tags; the PLC sends responses and
\* notifications on the one stream.
InterleaveNext ==
  \/ \E c \in Calls, n \in Names : ReadTag(c, n, TRUE)
  \/ \E c \in Calls, n \in Names : MonitorTag(c, n, TRUE)
  \/ \E id \in ClientIds, code \in ClientRespCodes : ClientDataHandler(id, code)
  \/ \E nid \in ClientIds \cup {0}, samples \in Frames(client) :
       ClientNotificationFor(nid, samples)
  \/ \E id \in ClientIds : ClientResponseAndNotification(id)

InterleaveSpec == InterleaveInit /\ [][InterleaveNext]_vars

\* connect() and close() under every setting of the preload options.
AllOptions == [loadSymbols : BOOLEAN, loadDataTypes : BOOLEAN, reconnect : {TRUE}]

PreloadInit ==
  /\ ConnStart(TRUE)
  /\ \E opt \in AllOptions : ClientStart(opt)
  /\ codec = NoCodec
  /\ tags = NoTags
  /\ tables = NoTables

PreloadNext ==
  \/ \E c \in Calls : ClientConnect(c)
  \/ \E c \in Calls : ClientClose(c)
  \/ \E fresh \in BOOLEAN : ClientConnectHandler(fresh)
  \/ \E id \in ClientIds, code \in ClientRespCodes : ClientDataHandler(id, code)
  \/ \E id \in ClientIds : ClientTimeout(id)
  \/ \E hadError \in BOOLEAN : ClientCloseHandler(hadError)
  \/ LingeringCloseHandler

PreloadSpec == PreloadInit /\ [][PreloadNext]_vars

(***************************************************************************)
(* readTag, writeTag and monitorTag on the tags of the PLC.  A call runs   *)
(* findTag at once and goes on in a later microtask, after the `await`;    *)
(* a read and a subscription end when the response of the PLC arrives.     *)
(***************************************************************************)
\* The tags as a turn finds them: the calls that have ended are forgotten.
TagsNow ==
  [tags EXCEPT !.call = SelectSeq(tags.call, LAMBDA c : c.st # "done"),
               !.invoked = <<>>]

TagRequest(command, tag, data) ==
  [t |-> "request", command |-> command, group |-> tag.group, offset |-> tag.offset,
   size |-> tag.size, data |-> data]

\* readTag(tagName), writeTag(tagName, value), monitorTag(tagName, callback)
\* up to `await this.findTag(tagName)`.  The callback of a call is known by
\* the number of the call and the path it is registered for.
TagCall(op, tagName, value) ==
  /\ tags.calls < MaxTagCalls
  /\ op = "write" \/ value = Null
  /\ LET i  == findSymbol(toUpperCase(tagName))
         c  == [op |-> op, path |-> tagName, value |-> value,
                cb |-> [id |-> tags.calls + 1, path |-> tagName],
                sym |-> i, st |-> IF i = 0 THEN "done" ELSE "found",
                request |-> NoRequest,
                result |-> IF i = 0 THEN Thrown("findTag: symbol was not found")
                           ELSE NoResult]
         t1 == FindSymbolTag(TagsNow, tagName)
     IN  tags' = [t1 EXCEPT !.calls = @ + 1, !.call = Append(@, c)]
  /\ UNCHANGED <<connVars, clientVars, codec, tables>>

\* The rest of the call, after findTag.
TagContinue(k) ==
  /\ k \in 1..Len(TagsNow.call)
  /\ TagsNow.call[k].st = "found"
  /\ LET t0  == TagsNow
         c   == t0.call[k]
         i   == c.sym
         tag == SymbolTag(t0, i)
         w   == WriteTagRequest(tag, c.value)
     IN  tags' =
           CASE c.op = "read" ->
                  [t0 EXCEPT !.call[k].st = "sent",
                             !.call[k].request = TagRequest("Read", tag, <<>>)]
             [] c.op = "write" ->
                  IF w.t = "throw"
                  THEN [t0 EXCEPT !.call[k].st = "done", !.call[k].result = w]
                  ELSE [Store(t0, w) EXCEPT !.call[k].st = "done",
                                            !.call[k].request = w,
                                            !.call[k].result = [t |-> "resolved"]]
             [] OTHER ->
                  IF t0.notifications[i] # NoHandle
                  THEN [t0 EXCEPT !.notifications[i].callbacks = Append(@, c.cb),
                                  !.call[k].st = "done",
                                  !.call[k].result = Num(t0.notifications[i].handle)]
                  ELSE [t0 EXCEPT !.call[k].st = "sent",
                                  !.call[k].request =
                                     TagRequest("AddDeviceNotification", tag, <<>>)]
  /\ UNCHANGED <<connVars, clientVars, codec, tables>>

\* The response of the PLC to the Read or the AddDeviceNotification of a call.
TagResponse(k) ==
  /\ k \in 1..Len(TagsNow.call)
  /\ TagsNow.call[k].st = "sent"
  /\ LET t0  == TagsNow
         c   == t0.call[k]
         i   == c.sym
         tag == SymbolTag(t0, i)
         h   == t0.handles + 1
     IN  tags' =
           IF c.op = "read"
           THEN [t0 EXCEPT !.call[k].st = "done",
                           !.call[k].result =
                              ClientParse(tag, MemoryAt(t0, c.request.offset, c.request.size),
                                          targetParts(tag))]
           ELSE [t0 EXCEPT !.handles = h,
                           !.notifications[i] =
                              [handle |-> h,
                               tagName |-> IF tag.targetTag # <<>> THEN tag.targetTag
                                           ELSE tag.name,
                               callbacks |-> <<c.cb>>],
                           !.call[k].st = "done",
                           !.call[k].result = Num(h)]
  /\ UNCHANGED <<connVars, clientVars, codec, tables>>

\* A notification of the PLC with one sample, of the subscription of
\* connection.notifications[name of symbol i]: notificationHandler.
TagNotification(i) ==
  /\ i \in 1..Len(Symbols)
  /\ TagsNow.notifications[i] # NoHandle
  /\ LET t0 == TagsNow
         nh == t0.notifications[i]
         j  == findSymbol(toUpperCase(nh.tagName))
         t1 == FindSymbolTag(t0, nh.tagName)
         tag == SymbolTag(t1, j)
         parsed == ClientParse(tag, MemoryAt(t0, Symbols[i].offset, Symbols[i].size),
                               targetParts(tag))
     IN  /\ j # 0
         /\ tags' = [t1 EXCEPT !.invoked =
                        IF parsed.t = "throw" THEN <<>>
                        ELSE [n \in 1..Len(nh.callbacks) |->
                                [cb |-> nh.callbacks[n], value |-> parsed]]]
  /\ UNCHANGED <<connVars, clientVars, codec, tables>>

TagInit ==
  /\ ConnStart(TRUE)
  /\ ClientStart(DefaultOptions)
  /\ codec = NoCodec
  /\ tags = ReadyTags
  /\ tables = NoTables

TagNext ==
  \/ \E tagName \in Paths : TagCall("read", tagName, Null)
  \/ \E w \in Writes : TagCall("write", w[1], w[2])
  \/ \E k \in 1..MaxTagCalls : TagContinue(k)
  \/ \E k \in 1..MaxTagCalls : TagResponse(k)

TagSpec == TagInit /\ [][TagNext]_vars

\* monitorTag on a symbol and on its sub-items, and the notifications of the
\* PLC for the subscriptions made.
MonitorPaths ==
  {SymbolNames.Sym,
   SymbolNames.Sym \o <<".", "S", "U", "B">>,
   SymbolNames.Sym \o <<".", "S", "U", "B", ".", "L", "O">>,
   <<".", "s", "y", "m", ".", "s", "u", "b", ".", "l", "o">>,
   SymbolNames.n,
   SymbolNames.txt}

MonitorNext ==
  \/ \E tagName \in MonitorPaths : TagCall("monitor", tagName, Null)
  \/ \E k \in 1..MaxTagCalls : TagContinue(k)
  \/ \E k \in 1..MaxTagCalls : TagResponse(k)
  \/ \E i \in 1..Len(Symbols) : TagNotification(i)

MonitorSpec == TagInit /\ [][MonitorNext]_vars

(***************************************************************************)
(* getSymbols and getDataTypes: the loop over the records of the payload   *)
(* of SYM_UPLOAD and SYM_DT_UPLOAD, one time round the loop per step.  A   *)
(* record is its length in four bytes and zeros: no name, type, comment,   *)
(* array dimension or sub-item.                                            *)
(***************************************************************************)
\* The records of a payload at most.
MaxEntries == 2

\* `while (_buffer.length >= 26)` of getSymbols, `>= 40` of getDataTypes
MinEntry(kind) == IF kind = "symbols" THEN 26 ELSE 40

\* The reads of a record of zeros that leave the entry: getSymbols reads two
\* bytes at 24 of entryData; decodeDataType reads two bytes at 36, and four
\* bytes of a sub-item, whose length 0 it refuses, from 41 on.
DecodeThrows(kind, entryLength) ==
  IF kind = "symbols" THEN entryLength - 4 < 26
  ELSE entryLength - 4 < 38 \/ entryLength - 4 > 41

\* One time round the loop.
TableStep ==
  /\ tables.st = "running"
  /\ LET min         == MinEntry(tables.kind)
         entryLength == readUInt32LE(tables.buffer, 0)
     IN  tables' =
           IF Len(tables.buffer) < min
           THEN [tables EXCEPT !.st = "done"]
           ELSE IF Len(tables.buffer) >= entryLength /\ entryLength >= min
           THEN IF DecodeThrows(tables.kind, entryLength)
                THEN [tables EXCEPT !.st = "rejected"]
                ELSE [tables EXCEPT !.buffer = sliceFrom(tables.buffer, entryLength),
                                    !.count = @ + 1]
           ELSE tables
  /\ UNCHANGED <<connVars, clientVars, codec, tags>>

\* A record of size bytes that declares the length declared.
Entry(size, declared) == UInt32LE(declared) \o Zeros(size - 4)

\* The records the PLC may send: whole ones, the shortest of which the
\* decoder cannot read, and ones with a length below the minimum or beyond
\* the bytes that are left.
Entries(kind) ==
  LET min == MinEntry(kind) IN
  UNION {{Entry(size, declared) : declared \in {size, 0, min - 1, size + 100}} :
           size \in {min, min + 4}}

RECURSIVE Flatten(_)
Flatten(list) == IF list = <<>> THEN <<>> ELSE Head(list) \o Flatten(Tail(list))

\* The response to the read of SYM_UPLOAD or SYM_DT_UPLOAD has arrived.
TableInit ==
  /\ ConnStart(TRUE)
  /\ ClientStart(DefaultOptions)
  /\ codec = NoCodec
  /\ tags = NoTags
  /\ \E kind \in {"symbols", "dataTypes"}, n \in 0..MaxEntries, trailing \in {0, 3} :
       \E list \in [1..n -> Entries(kind)] :
         tables = [kind |-> kind, st |-> "running",
                   buffer |-> Flatten(list) \o Zeros(trailing), count |-> 0]

TableNext == TableStep

TableSpec == TableInit /\ [][TableNext]_vars

\* The loop goes on as long as it can.
TableLiveSpec == TableSpec /\ WF_vars(TableNext)

\* The socket's 'data' event with the next k bytes.
CodecDataHandler(k) ==
  /\ k \in 1..Len(codec.wire)
  /\ IF codec.bytewise THEN k = 1 ELSE codec.events = 0 \/ k = Len(codec.wire)
  /\ codec' = [Receive(codec, SubSeq(codec.wire, 1, k))
                 EXCEPT !.wire = SubSeq(codec.wire, k + 1, Len(codec.wire))]
  /\ UNCHANGED <<connVars, clientVars, tags, tables>>

PacketLists == UNION {[1..k -> ResponseTypes] : k \in 1..MaxPackets}

CodecInit ==
  /\ ConnStart(TRUE)
  /\ ClientStart(DefaultOptions)
  /\ tags = NoTags
  /\ tables = NoTables
  /\ \E handler \in {"Client", "ADSConnection"}, types \in PacketLists,
        bytewise \in BOOLEAN : CodecStart(handler, types, bytewise)

CodecNext == \E k \in 1..Len(codec.wire) : CodecDataHandler(k)

CodecSpec == CodecInit /\ [][CodecNext]_vars

\* The same with packets whose command ID is none of the switch of decode.
CommandIds == ResponseTypes \cup {10}

AnyCodecInit ==
  /\ ConnStart(TRUE)
  /\ ClientStart(DefaultOptions)
  /\ tags = NoTags
  /\ tables = NoTables
  /\ \E handler \in {"Client", "ADSConnection"},
        types \in UNION {[1..k -> CommandIds] : k \in 1..MaxPackets},
        bytewise \in BOOLEAN : CodecStart(handler, types, bytewise)

AnyCodecSpec == AnyCodecInit /\ [][CodecNext]_vars

\* The sessions of one connection at most.
MaxSessions == 2

\* The socket ends with bytes of the peer not yet delivered, and connect()
\* opens the next one, on which the peer sends its packets: connect() and
\* the handlers of 'close' assign nothing to the buffer of the data handler.
CodecReconnect(types) ==
  /\ codec.session < MaxSessions
  /\ codec.events > 0
  /\ codec' = [codec EXCEPT !.session = @ + 1, !.sent = types,
                            !.wire = Stream(types, 1)]
  /\ UNCHANGED <<connVars, clientVars, tags, tables>>

\* What the peer sends in a session: a Read response, a notification, both.
SessionLists == {<<2>>, <<8>>, <<2, 8>>}

SessionInit ==
  /\ ConnStart(TRUE)
  /\ ClientStart(DefaultOptions)
  /\ tags = NoTags
  /\ tables = NoTables
  /\ \E handler \in {"Client", "ADSConnection"}, types \in SessionLists :
       CodecStart(handler, types, FALSE)

SessionNext ==
  \/ \E k \in 1..Len(codec.wire) : CodecDataHandler(k)
  \/ \E types \in SessionLists : CodecReconnect(types)

SessionSpec == SessionInit /\ [][SessionNext]_vars

(***************************************************************************)
(* Properties of the Client.                                                *)
(***************************************************************************)
\* C5 (ADSConnection.request): a response with a nonzero error code rejects
\* the promise of the request waiting under its invoke ID with the message of
\* the table, or with a message carrying the code.  Holds under ConnSpec.
C5_ConnectionRejects ==
  [][ \A r \in Slots, code \in RespCodes :
        (DataHandler(r, code) /\ code # 0)
          => \A w \in requests[idOf[r]] : promise'[w] = AdsError(code) ]_vars

\* C5 (Client.request): a response whose header carries a nonzero error code
\* rejects the promise of the request with that invoke ID, with the message
\* of the error-code table or a message carrying the code.
C5_ErrorCodeRejects ==
  [][ \A id \in ClientIds, code \in ClientRespCodes :
        (ClientDataHandler(id, code) /\ code # 0 /\ id \in client.requests)
          => client'.promise[id] = AdsError(code) ]_vars

\* C8: after a transport close with the reconnect option enabled the Client
\* re-establishes the session by itself: it is connected again on an open
\* socket.
C8_TransparentReconnect ==
  (client.socket = "closed" /\ options.reconnect)
    ~> (client.socket = "open" /\ client.connected)

\* C9: every notification registered before a transport close is still
\* registered after it, with the same callbacks, so that it can be subscribed
\* again on the new session.
C9_RegistrySurvivesClose ==
  [][ \A hadError \in BOOLEAN :
        ClientCloseHandler(hadError)
          => \A n \in Names :
               client.notifications[n] # NoEntry
                 => /\ client'.notifications[n] # NoEntry
                    /\ client'.notifications[n].callbacks
                         = client.notifications[n].callbacks ]_vars

\* monitorTag of call c on name n gets past findTag in this step: at the call
\* when the symbols are loaded, else on the response to its read of the table.
FindsTag(c, n) ==
  \/ /\ client.symbols
     /\ NextCall(c)
     /\ \E fresh \in BOOLEAN : MonitorTag(c, n, fresh)
  \/ /\ client.call[c].kind = "monitor"
     /\ client.call[c].name = n
     /\ \E id \in client.requests :
          /\ client.cont[id] = [call |-> c, stage |-> "sym", then |-> "none"]
          /\ ClientDataHandler(id, 0)

\* The requests a step issues.
Issued == (client.invokeID)..(client'.invokeID - 1)

\* C10: monitorTag on a name with a registry entry appends the callback to the
\* entry and returns its handle without a request; on a name without an entry
\* it sends exactly one AddDeviceNotification, and the response to it
\* registers the entry with the handle of the response.
C10_MonitorTag ==
  [][ /\ \A c \in Calls, n \in Names :
           FindsTag(c, n) =>
             IF client.notifications[n] # NoEntry
             THEN /\ client'.notifications[n] =
                       [client.notifications[n] EXCEPT !.callbacks = Append(@, c)]
                  /\ client'.call[c].p = Resolved
                  /\ client'.call[c].value = client.notifications[n].handle
                  /\ Issued = {}
             ELSE /\ Issued = {client.invokeID}
                  /\ client'.cmd[client.invokeID] = "AddDeviceNotification"
                  /\ client.invokeID \in client'.sent
                  /\ client'.call[c].p = Pending
                  /\ client'.notifications = client.notifications
      /\ \A id \in client.requests :
           ( /\ client.cmd[id] = "AddDeviceNotification"
             /\ ClientDataHandler(id, 0) )
           => LET c == client.cont[id].call
                  n == client.call[c].name
                  h == ClientFrame(client, id, 0).handle
              IN  /\ client'.notifications[n] =
                       [handle |-> h, tagName |-> n, callbacks |-> <<c>>]
                  /\ client'.call[c].p = Resolved
                  /\ client'.call[c].value = h ]_vars

\* Two monitorTag calls on one name: the second found the entry of the first.
C10_Witness ==
  \E n \in Names :
    /\ Len(client.notifications[n].callbacks) = 2
    /\ \E c \in Calls : client.call[c].kind = "monitor" /\ client.call[c].p = Resolved
                        /\ client.call[c].value = client.notifications[n].handle

\* C11: stopMonitorTag(name, callback) removes only the given callback from
\* the entry of the name: while another callback remains no request is sent
\* and the entry keeps the others; DeleteDeviceNotification is sent only when
\* none remains.
C11_StopRemovesOneCallback ==
  [][ \A c \in Calls, n \in Names, cb \in Calls :
        ( /\ client.symbols
          /\ NextCall(c)
          /\ client.notifications[n] # NoEntry
          /\ \E fresh \in BOOLEAN : StopMonitorTag(c, n, cb, fresh) )
        => LET rest == SelectSeq(client.notifications[n].callbacks, LAMBDA x : x # cb)
           IN  IF rest # <<>>
               THEN /\ Issued = {}
                    /\ client'.notifications[n] =
                         [client.notifications[n] EXCEPT !.callbacks = rest]
               ELSE /\ Issued = {client.invokeID}
                    /\ client'.cmd[client.invokeID] = "DeleteDeviceNotification" ]_vars

\* C12: close() ends whatever becomes of its DeleteDeviceNotification
\* requests: the socket is dropped, the registry is empty and the call is
\* resolved.
C12_CloseBestEffort ==
  \A c \in Calls :
    (client.call[c].kind = "close" /\ client.call[c].p = Pending)
      ~> ( /\ client.call[c].p = Resolved
           /\ client.socket = "null"
           /\ \A n \in Names : client.notifications[n] = NoEntry )

\* The invocations a frame is due: for each sample in turn whose handle an
\* entry has, the callbacks of the entry in the order they were registered.
RECURSIVE Due(_, _, _)
Due(reg, samples, i) ==
  IF i > Len(samples) THEN <<>>
  ELSE LET at == {n \in Names : reg[n] # NoEntry /\ reg[n].handle = samples[i]}
           cbs == IF at = {} THEN <<>> ELSE reg[CHOOSE n \in at : TRUE].callbacks
       IN  [j \in 1..Len(cbs) |-> [sample |-> i, cb |-> cbs[j]]] \o Due(reg, samples, i + 1)

\* C13: a callback that throws while a frame is demultiplexed stops nothing:
\* the other callbacks of the sample and the samples after it are delivered,
\* and the error is caught rather than thrown out of the handler.
C13_ThrowingCallbackIsolated ==
  [][ \A samples \in Frames(client), bad \in SUBSET Registered(client) :
        \/ /\ client'.invoked = Due(client.notifications, samples, 1)
           /\ client'.uncaught = 0
        \/ ~(client.symbols /\ ClientNotification(samples, bad, TRUE)) ]_vars

C15_HandleLimit ==
  Cardinality({n \in Names : client.notifications[n] # NoEntry}) <= MaxHandles

\* C19: when connect() resolves, the transport is connected and the tables
\* that the options ask for, the symbols and the data types, are loaded.
C19_ConnectAfterPreload ==
  [][ \A c \in Calls :
        (client.call[c].kind = "connect" /\ client.call[c].p.st = "pending"
           /\ client'.call[c].p = Resolved)
          => /\ client'.connected
             /\ options.loadSymbols => client'.symbols
             /\ options.loadDataTypes => client'.dataTypes ]_vars

\* C20: every call ends.  Once the socket is closed, whether the connection
\* was lost or never made, a call that is still pending is settled in the
\* end: connect() is rejected and does not stay pending.
C20_EveryCallEnds ==
  \A c \in Calls :
    (client.call[c].p.st = "pending" /\ client.socket = "closed")
      ~> (client.call[c].p.st # "pending")

(***************************************************************************)
(* Properties of the frame codec.                                          *)
(***************************************************************************)
\* The packets the peer sent, as records.
Expected(types) ==
  [i \in 1..Len(types) |->
     [type |-> types[i], invokeId |-> i, result |-> 0,
      length |-> IF types[i] \in WithLength THEN Len(Payload(types[i])) ELSE 0,
      data |-> IF types[i] \in WithData THEN Payload(types[i]) ELSE <<>>]]

C18_ByteByByte ==
  (codec.bytewise /\ Len(codec.sent) = 1)
    => /\ codec.errors = 0
       /\ codec.wire # <<>> => codec.out = <<>>
       /\ (codec.wire = <<>> /\ codec.events > 0) => codec.out = Expected(codec.sent)

\* C29: a whole packet with a command ID that is none of the nine response
\* types is reported as an error by the handler that receives it.
C29_UnknownCommandIsError ==
  (/\ ~codec.bytewise /\ codec.events = 1 /\ codec.wire = <<>>
   /\ \E i \in 1..Len(codec.sent) : codec.sent[i] \notin ResponseTypes)
    => codec.errors > 0

\* The write calls that go on from findTag in this step: call k, the tag as
\* writeTag finds it, and what encode gives for it.
WriteGoesOn(k) ==
  /\ k \in 1..Len(TagsNow.call)
  /\ TagsNow.call[k].op = "write"
  /\ TagsNow.call[k].st = "found"
  /\ k \in 1..Len(tags'.call)
  /\ tags'.call[k].st = "done"

EncodedOf(k) ==
  LET tag == SymbolTag(TagsNow, TagsNow.call[k].sym)
  IN  ClientEncode(tag, TagsNow.call[k].value, targetParts(tag))

\* C21: writeTag rejects, and sends no Write request, when the length of the
\* encoded value differs from the size of the tag it resolved; otherwise it
\* sends one Write(group, offset, size, payload) whose payload has size bytes.
C21_WriteChecksSize ==
  [][ \A k \in 1..MaxTagCalls :
        (WriteGoesOn(k) /\ EncodedOf(k).t # "throw")
          => LET e == EncodedOf(k)
                 c == tags'.call[k]
             IN  IF Len(e.data) # e.size
                 THEN /\ c.result.t = "throw"
                      /\ c.request = NoRequest
                      /\ tags'.memory = tags.memory
                 ELSE /\ c.result.t = "resolved"
                      /\ c.request = [t |-> "request", command |-> "Write",
                                      group |-> Symbols[TagsNow.call[k].sym].group,
                                      offset |-> e.offset,
                                      size |-> e.size, data |-> e.data]
                      /\ Len(c.request.data) = c.request.size ]_vars

C21_Witness ==
  \E k \in 1..Len(tags.call) :
    /\ tags.call[k].op = "write"
    /\ tags.call[k].st = "done"
    /\ tags.call[k].path = SymbolNames.txt
    /\ tags.call[k].value = Str(<<"a", "b">>)
    /\ tags.call[k].result
         = Thrown("expected write size and provided data differs in length")
    /\ tags.call[k].request = NoRequest

\* C22: a path with a bracket index addresses the element: with the dimension
\* (start, length) of the array the size is size / length and the offset is
\* offset + size * (index - start), so reading `.arrAlarm[2]` of the BOOL
\* array at offset 32 (0x20) of size 2 sends Read(group, 33, 1).
C22_IndexAddressesElement ==
  \A k \in 1..Len(tags.call) :
    (/\ tags.call[k].op = "read"
     /\ tags.call[k].path = SymbolNames.arrAlarm \o <<"[", "2", "]">>
     /\ tags.call[k].request # NoRequest)
      => LET sym  == Symbols[tags.call[k].sym]
             dim  == DataTypes(sym.type).arrayDimentions[1]
             size == sym.size \div dim.length
         IN  /\ tags.call[k].request.command = "Read"
             /\ tags.call[k].request.group = sym.group
             /\ tags.call[k].request.size = size
             /\ tags.call[k].request.offset = sym.offset + size * (2 - dim.start)

\* The paths to the sub-items of .Sym that hold a BYTE.
ByteItemPaths ==
  {SymbolNames.Sym \o <<".", "C", "o", "u", "n", "t">>,
   SymbolNames.Sym \o <<".", "S", "U", "B", ".", "L", "O">>,
   <<".", "s", "y", "m", ".", "s", "u", "b", ".", "l", "o">>,
   SymbolNames.Sym \o <<".", "S", "U", "B", ".", "H", "i">>}

\* C23: a path is resolved down to its sub-items whatever the letter case of
\* the path and of the names in the data-type table: a readTag or a writeTag
\* of a fitting value on the path of a sub-item, with no other call about, does
\* not fail.
C23_CaseInsensitivePath ==
  \A k \in 1..Len(tags.call) :
    (/\ tags.calls = 1
     /\ tags.call[k].st = "done"
     /\ tags.call[k].path \in ByteItemPaths
     /\ tags.call[k].op = "write" => tags.call[k].value = Num(3))
      => tags.call[k].result.t # "throw"

\* The values written that are of the type of symbol i.
ValuesOf(i) ==
  CASE Symbols[i].name = SymbolNames.arrAlarm ->
         {Arr((1 :> Bool(FALSE)) @@ (2 :> Bool(TRUE)))}
    [] Symbols[i].name = SymbolNames.Sym ->
         {Obj(SymValue)}
    [] Symbols[i].name = SymbolNames.txt -> {Str(<<"a", "b">>)}
    [] Symbols[i].name = SymbolNames.n -> {Num(3), Num(300)}
    [] OTHER -> {}

\* C24: decoding the encoding of a value of the type of a tag gives the value
\* back, for primitives, structures and arrays: whenever writeTag is called on
\* a symbol with a value of its type, encode gives data and parse of that
\* data is the value.
C24_RoundTrip ==
  \A k \in 1..Len(tags.call) :
    (/\ tags.call[k].op = "write"
     /\ tags.call[k].sym # 0
     /\ tags.call[k].path = Symbols[tags.call[k].sym].name
     /\ tags.call[k].value \in ValuesOf(tags.call[k].sym))
      => LET tag == [SymbolTag(tags, tags.call[k].sym) EXCEPT !.targetTag = <<>>]
             e   == ClientEncode(tag, tags.call[k].value, <<>>)
         IN  /\ e.t # "throw"
             /\ ClientParse(tag, e.data, <<>>).t = tags.call[k].value.t
             /\ ClientParse(tag, e.data, <<>>) = tags.call[k].value

\* The array that data holds for the dimensions dims, the first of them the
\* outer one: one element for every index of each dimension, each decoded
\* from its own slice of the data.
RECURSIVE Nested(_, _, _)
Nested(dt, data, dims) ==
  IF dims = <<>>
  THEN ClientParse(Item(<<>>, dt.type, 0, Len(data)), data, <<>>)
  ELSE LET d  == Head(dims)
           sz == Len(data) \div d.length
       IN  Arr([x \in d.start..(d.start + d.length - 1) |->
                  Nested(dt, slice(data, (x - d.start) * sz, (x - d.start + 1) * sz),
                         Tail(dims))])

\* C25: readTag of an array symbol gives one element for every index of each
\* dimension, nested one dimension per level with the outer index varying
\* slowest, every element decoded from its own slice of the data.
C25_ArrayDecode ==
  \A k \in 1..Len(tags.call) :
    (/\ tags.call[k].op = "read"
     /\ tags.call[k].st = "done"
     /\ tags.call[k].sym # 0
     /\ DataTypes(Symbols[tags.call[k].sym].type).arrayDimentions # <<>>)
      => LET sym == Symbols[tags.call[k].sym]
             dt  == DataTypes(sym.type)
         IN  tags.call[k].result
               = Nested(dt, MemoryAt(tags, sym.offset, sym.size), dt.arrayDimentions)

\* The names of the sub-items of the structure that a path names.
ItemNames(path) ==
  LET type == IF path = SymbolNames.Sym THEN "ST_Sym" ELSE "ST_Sub"
      items == DataTypes(type).subItems
  IN  {items[x].name : x \in 1..Len(items)}

\* C26: writeTag of a mapping on a structure fails when the mapping lacks the
\* name of a sub-item or has a key that is no sub-item; only a mapping with
\* exactly the names of the sub-items is encoded.
C26_StructureShape ==
  \A k \in 1..Len(tags.call) :
    (/\ tags.calls = 1
     /\ tags.call[k].op = "write"
     /\ tags.call[k].st = "done"
     /\ tags.call[k].path \in {SymbolNames.Sym, SymbolNames.Sym \o <<".", "S", "U", "B">>}
     /\ tags.call[k].value.t = "object"
     /\ DOMAIN tags.call[k].value.m # ItemNames(tags.call[k].path))
      => /\ tags.call[k].result.t = "throw"
         /\ tags.call[k].request = NoRequest

\* The characters of the bytes of data before the first 0, all when none is 0.
BeforeNul(data) ==
  LET nul == {x \in 1..Len(data) : data[x] = 0}
      end == IF nul = {} THEN Len(data) ELSE (CHOOSE x \in nul : \A y \in nul : x <= y) - 1
  IN  [x \in 1..end |-> fromCharCode(data[x])]

\* C27: the STRING codec keeps the declared size: writeTag of a string shorter
\* than the size of the tag sends the characters followed by zeros, size bytes
\* in all, and readTag gives the characters before the first NUL.
C27_StringKeepsSize ==
  \A k \in 1..Len(tags.call) :
    (/\ tags.calls = 1
     /\ tags.call[k].st = "done"
     /\ tags.call[k].path = SymbolNames.txt)
      => LET sym == Symbols[tags.call[k].sym]
             c   == tags.call[k]
         IN  /\ (c.op = "write" /\ c.value = Str(<<"a", "b">>))
                  => /\ c.result.t = "resolved"
                     /\ c.request.size = sym.size
                     /\ c.request.data = <<charCode("a"), charCode("b")>> \o Zeros(sym.size - 2)
             /\ c.op = "read"
                  => c.result = Str(BeforeNul(MemoryAt(tags, sym.offset, sym.size)))

\* The value of the tag that path names, in the memory of the PLC.
ValueOf(path) ==
  LET i   == findSymbol(toUpperCase(path))
      tag == [SymbolTag(tags, i) EXCEPT !.targetTag = toUpperCase(path)]
  IN  ClientParse(tag, MemoryAt(tags, tag.offset, tag.size), targetParts(tag))

\* C30: the registry tracks the subscriptions by tag name: the callbacks of
\* one entry are all registered for the same tag path, the entries have
\* handles of their own, and a callback is only invoked with the value of the
\* tag path it was registered for.
C30_RegistryByTagName ==
  /\ \A i \in 1..Len(Symbols) :
       \A x, y \in 1..Len(tags.notifications[i].callbacks) :
         toUpperCase(tags.notifications[i].callbacks[x].path)
           = toUpperCase(tags.notifications[i].callbacks[y].path)
  /\ \A i, j \in 1..Len(Symbols) :
       (/\ i # j
        /\ tags.notifications[i] # NoHandle
        /\ tags.notifications[j] # NoHandle)
         => tags.notifications[i].handle # tags.notifications[j].handle
  /\ \A n \in 1..Len(tags.invoked) :
       tags.invoked[n].value = ValueOf(tags.invoked[n].cb.path)

\* The symbol key of a path in upper case: its first two segments, the first
\* one empty after the leading dot, without sub-items and bracket indices.
SymbolKey(path) ==
  LET ends == {x \in 2..Len(path) : path[x] \in {".", "["}}
      end  == IF ends = {} THEN Len(path)
              ELSE (CHOOSE x \in ends : \A y \in ends : x <= y) - 1
  IN  toUpperCase(SubSeq(path, 1, end))

\* C31: findTag gives the symbol whose upper-case name equals the upper-cased
\* symbol key of the path, and fails with "symbol was not found" when no
\* symbol has exactly that name, also when the name of another symbol is a
\* proper prefix of the path.
C31_ExactSymbol ==
  \A k \in 1..Len(tags.call) :
    LET c     == tags.call[k]
        exact == {i \in 1..Len(Symbols) : toUpperCase(Symbols[i].name) = SymbolKey(c.path)}
    IN  IF exact = {}
        THEN /\ c.sym = 0
             /\ c.result = Thrown("findTag: symbol was not found")
        ELSE c.sym \in exact

\* C32: the decoding of the symbol table and of the data-type table ends on
\* every payload: the loop comes to its end, also when the bytes that are
\* left declare a length below the minimum or beyond the bytes that remain.
C32_DecodingTerminates == <>(tables.st # "running")

\* C33: no state of a session is carried into the next: when a new session
\* starts the buffer of the data handler is empty, and what the handler gives
\* in a session are the packets the peer sent in that session.
C33_BufferPerSession ==
  [][ codec'.session # codec.session => codec'.buffer = <<>> ]_vars

\* C34: an error raised while the connection handles received data, a frame
\* that cannot be decoded, is surfaced as an 'error' event of the connection.
C34_ErrorEvent ==
  (codec.handler = "ADSConnection" /\ codec.errors > 0)
    => /\ Len(codec.caught) = codec.errors
       /\ \A i \in 1..Len(codec.caught) : codec.caught[i] = "error"

\* C35: notifications and responses on the one stream are kept apart: a
\* DeviceNotification frame completes no pending request, even when its
\* invoke-ID field is the ID of one, and the response to a request reaches
\* the waiter of its invoke ID only.
C35_KeptApart ==
  [][ /\ \A nid \in ClientIds \cup {0}, samples \in Frames(client) :
           ClientNotificationFor(nid, samples)
             => /\ client'.requests = client.requests
                /\ \A j \in client.requests : client'.promise[j] = client.promise[j]
      /\ \A id \in ClientIds, code \in ClientRespCodes :
           ClientDataHandler(id, code)
             => \A j \in client.requests \ {id} :
                  j \in client'.requests /\ client'.promise[j] = client.promise[j] ]_vars

\* C39: no sample is lost at subscription time: when the frame with a sample
\* for a handle comes in the same chunk as the AddDeviceNotification response
\* that gave the handle, the callback given to monitorTag is invoked.
C39_NoSampleLost ==
  [][ \A id \in ClientIds :
        (/\ ClientResponseAndNotification(id)
         /\ id \in client.requests
         /\ client.cmd[id] = "AddDeviceNotification")
          => \E i \in 1..Len(client'.invoked) :
               client'.invoked[i].cb = client.cont[id].call ]_vars

\* C36: ADSConnection reports connected only while it has a live session:
\* isConnected() is true only while the current socket is open, so after
\* close() has returned (the socket is ended) isConnected() is false, and a
\* request() then fails with 'Not connected' without writing to the socket.
C36_ConnectedOnlyWhileLive ==
  [][ /\ isConnected' => socket' = "open"
      /\ (last'.op = "request" /\ socket # "open")
           => /\ sent' = sent
              /\ \A r \in Slots : promise'[r] # promise[r]
                                     => promise'[r] = Rejected("Not connected")
    ]_vars

\* C37: when monitorTag calls for the same tag run concurrently, then once
\* they have completed the registry holds the callback of every one of them,
\* and every handle the PLC has given out in an AddDeviceNotification
\* response is the handle of an entry of the registry.
C37_ConcurrentMonitor ==
  /\ \A id \in 1..tags.calls :
       (\A k \in 1..Len(tags.call) :
          tags.call[k].cb.id = id => tags.call[k].st = "done")
         => \E i \in 1..Len(Symbols) :
              \E n \in 1..Len(tags.notifications[i].callbacks) :
                tags.notifications[i].callbacks[n].id = id
  /\ \A h \in 1..tags.handles :
       \E i \in 1..Len(Symbols) :
         /\ tags.notifications[i] # NoHandle
         /\ tags.notifications[i].handle = h

\* C38: concurrent readTag and writeTag calls on different sub-items of one
\* symbol do not interfere: under every interleaving a read that has ended
\* has decoded the sub-item its own path names, and a write that has ended
\* has encoded the sub-item its own path names.
OwnTag(path) ==
  [SymbolTag(tags, findSymbol(toUpperCase(path))) EXCEPT !.targetTag = toUpperCase(path)]

C38_NoInterference ==
  \A k \in 1..Len(tags.call) :
    (tags.call[k].st = "done" /\ tags.call[k].sym # 0)
      => IF tags.call[k].op = "read"
         THEN tags.call[k].result = ValueOf(tags.call[k].path)
         ELSE LET w == WriteTagRequest(OwnTag(tags.call[k].path), tags.call[k].value)
              IN  IF w.t = "throw" THEN tags.call[k].result = w
                  ELSE tags.call[k].request = w

\* C40: after every call of parse that returns, the buffer that is left
\* holds no whole packet: every packet that is wholly in the input is taken
\* by that call and does not wait for later data.
C40_NoFrameLeft ==
  [][ (codec'.events = codec.events + 1 /\ codec'.errors = codec.errors)
        => ~HasFrame(codec'.buffer)
    ]_vars

=============================================================================
